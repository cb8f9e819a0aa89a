------------------------ MODULE ClientSessionProofs -------------------------
(***************************************************************************)
(* Theorems about ClientSession, for every set of users and of requests    *)
(* and every number of pairs, pages and retries: types, no false alarm,    *)
(* and that a session leaves nothing to the next.                          *)
(***************************************************************************)
EXTENDS ClientSession, TLAPS

(***************************************************************************)
(* The tab's operators, field by field: that each answers a tab, what it   *)
(* sets, and what it leaves alone.                                         *)
(***************************************************************************)

\* Two tabs that are on the same route.
SamePlace(t, u) == u.atLogin = t.atLogin /\ u.from = t.from /\ u.left = t.left

\* Two tabs in which the same sign-in is under way.
SameSigning(t, u) == u.signing = t.signing /\ u.account = t.account

SameTokens(t, u) == u.access = t.access /\ u.refresh = t.refresh

SameScreen(t, u) == u.ui = t.ui /\ u.restoring = t.restoring

SameRequests(t, u) == u.request = t.request /\ u.cache = t.cache

\* No query waits for an answer any more, and nothing is in the cache.
RequestsEmptied(t, u) ==
  /\ u.cache = {}
  /\ u.request = [s \in Slots |-> [t.request[s] EXCEPT !.kept = FALSE]]

\* queryClient.clear().
LEMMA EmptiedIs ==
  ASSUME NEW t \in Tab
  PROVE  LET u == Emptied(t)
         IN  /\ u \in Tab
             /\ RequestsEmptied(t, u)
             /\ SameTokens(t, u) /\ SameScreen(t, u) /\ SamePlace(t, u) /\ SameSigning(t, u)
             /\ u.exchange = t.exchange /\ u.leaving = t.leaving
  <1>1. [s \in Slots |-> [t.request[s] EXCEPT !.kept = FALSE]] \in [Slots -> Request]
    BY DEF Tab, Request
  <1>2. Emptied(t) \in Tab
    BY <1>1 DEF Emptied, Tab
  <1>3. QED
    BY <1>2 DEF Emptied, Tab, RequestsEmptied, SameTokens, SameScreen, SamePlace, SameSigning

\* setState.
LEMMA ShowIs ==
  ASSUME NEW t \in Tab, NEW ui \in AuthState
  PROVE  LET u == Show(t, ui)
         IN  /\ u \in Tab
             /\ u.ui = ui
             /\ u.restoring = IF ui.status = "loading" THEN t.restoring ELSE "no"
             /\ SameTokens(t, u) /\ SameRequests(t, u) /\ SamePlace(t, u) /\ SameSigning(t, u)
             /\ u.exchange = t.exchange /\ u.leaving = t.leaving
  BY DEF Show, Tab, SameTokens, SameRequests, SamePlace, SameSigning

\* What is drawn changes nothing but the route.
LEMMA RenderIs ==
  ASSUME NEW t \in Tab
  PROVE  LET u == Render(t)
         IN  /\ u \in Tab
             /\ CASE t.ui.status = "signed-out" /\ ~t.atLogin ->
                       u.atLogin /\ u.from = t.ui.keepPlace /\ u.left = t.left
                  [] t.ui.status = "signed-in" /\ t.atLogin ->
                       ~u.atLogin /\ ~u.from /\ ~u.left
                  [] OTHER -> SamePlace(t, u)
             /\ SameTokens(t, u) /\ SameScreen(t, u) /\ SameRequests(t, u) /\ SameSigning(t, u)
             /\ u.exchange = t.exchange /\ u.leaving = t.leaving
  <1>1. t.ui \in AuthState
    BY DEF Tab
  <1>2. CASE t.ui.status = "signed-out" /\ ~t.atLogin
    BY <1>1, <1>2 DEF Render, Tab, AuthState, SamePlace, SameTokens, SameScreen, SameRequests, SameSigning
  <1>3. CASE t.ui.status = "signed-in" /\ t.atLogin
    BY <1>1, <1>3 DEF Render, Tab, AuthState, SamePlace, SameTokens, SameScreen, SameRequests, SameSigning
  <1>4. CASE ~(t.ui.status = "signed-out" /\ ~t.atLogin) /\ ~(t.ui.status = "signed-in" /\ t.atLogin)
    BY <1>1, <1>4 DEF Render, SamePlace, SameTokens, SameScreen, SameRequests, SameSigning
  <1>5. QED
    BY <1>2, <1>3, <1>4

\* A request leaves with the access token the tab holds.
LEMMA SendIs ==
  ASSUME NEW t \in Tab, NEW s \in Slots, NEW retry \in BOOLEAN, NEW kept \in BOOLEAN
  PROVE  LET u == Send(t, s, retry, kept)
         IN  /\ u \in Tab
             /\ u.request = [t.request EXCEPT ![s] = [pc |-> "sent", token |-> t.access,
                                                      retry |-> retry, kept |-> kept]]
             /\ u.cache = t.cache
             /\ SameTokens(t, u) /\ SameScreen(t, u) /\ SamePlace(t, u) /\ SameSigning(t, u)
             /\ u.exchange = t.exchange /\ u.leaving = t.leaving
  <1>1. [t.request EXCEPT ![s] = [pc |-> "sent", token |-> t.access,
                                  retry |-> retry, kept |-> kept]] \in [Slots -> Request]
    BY DEF Tab, Request
  <1>2. QED
    BY <1>1 DEF Send, Tab, SameTokens, SameScreen, SamePlace, SameSigning

\* session.clear(), without its listener.
LEMMA ForgetIs ==
  ASSUME NEW t \in Tab
  PROVE  LET u == Forget(t)
         IN  /\ u \in Tab
             /\ u.access = NoToken /\ u.refresh = NoToken
             /\ SameScreen(t, u) /\ SameRequests(t, u) /\ SamePlace(t, u) /\ SameSigning(t, u)
             /\ u.exchange = t.exchange /\ u.leaving = t.leaving
  BY DEF Forget, Tab, SameScreen, SameRequests, SamePlace, SameSigning

\* What a tab may say of who is signed in.
LEMMA ScreensAre ==
  /\ Loading \in AuthState
  /\ Unavailable \in AuthState
  /\ \A keepPlace \in BOOLEAN : SignedOut(keepPlace) \in AuthState
  /\ \A u \in Users : SignedIn(u) \in AuthState
  BY DEF Loading, Unavailable, SignedOut, SignedIn, AuthState

\* session.clear(): a tab that holds a session forgets it, and all it has shown of it.
LEMMA ClearIs ==
  ASSUME NEW t \in Tab
  PROVE  LET u == Clear(t)
         IN  /\ u \in Tab
             /\ u.access = NoToken /\ u.refresh = NoToken
             /\ HadSession(t) => /\ u.ui = SignedOut(TRUE) /\ u.restoring = "no"
                                 /\ RequestsEmptied(t, u)
             /\ ~HadSession(t) => u = t
             /\ SamePlace(t, u) /\ SameSigning(t, u)
             /\ u.exchange = t.exchange /\ u.leaving = t.leaving
  <1> DEFINE f == Forget(t)
             e == Emptied(f)
             u == Show(e, SignedOut(TRUE))
  <1>1. CASE HadSession(t)
    <2>1. f \in Tab /\ e \in Tab
      BY ForgetIs, EmptiedIs
    <2>2. SignedOut(TRUE) \in AuthState /\ SignedOut(TRUE).status = "signed-out"
      BY ScreensAre DEF SignedOut
    <2>3. /\ f.access = NoToken /\ f.refresh = NoToken
          /\ SameRequests(t, f) /\ SamePlace(t, f) /\ SameSigning(t, f)
          /\ f.exchange = t.exchange /\ f.leaving = t.leaving
      BY ForgetIs
    <2>4. /\ RequestsEmptied(f, e)
          /\ SameTokens(f, e) /\ SamePlace(f, e) /\ SameSigning(f, e)
          /\ e.exchange = f.exchange /\ e.leaving = f.leaving
      BY <2>1, EmptiedIs
    <2>5. /\ u \in Tab
          /\ u.ui = SignedOut(TRUE) /\ u.restoring = "no"
          /\ SameTokens(e, u) /\ SameRequests(e, u) /\ SamePlace(e, u) /\ SameSigning(e, u)
          /\ u.exchange = e.exchange /\ u.leaving = e.leaving
      BY <2>1, <2>2, ShowIs
    <2>6. Clear(t) = u
      BY <1>1 DEF Clear
    <2> HIDE DEF f, e, u
    <2>7. QED
      BY <1>1, <2>3, <2>4, <2>5, <2>6
      DEF SameTokens, SameRequests, SamePlace, SameSigning, RequestsEmptied
  <1>2. CASE ~HadSession(t)
    BY <1>2 DEF Clear, HadSession, SamePlace, SameSigning
  <1>3. QED
    BY <1>1, <1>2

\* signOut past its await, whatever was there before it.
LEMMA LeaveIs ==
  ASSUME NEW t \in Tab
  PROVE  LET u == Leave(t)
         IN  /\ u \in Tab
             /\ u.access = NoToken /\ u.refresh = NoToken
             /\ u.ui = SignedOut(FALSE) /\ u.restoring = "no"
             /\ u.cache = {}
             /\ \A s \in Slots : u.request[s] = [t.request[s] EXCEPT !.kept = FALSE]
             /\ u.atLogin = t.atLogin /\ u.from = t.from /\ u.left
             /\ SameSigning(t, u)
             /\ u.exchange = t.exchange /\ ~u.leaving
  <1> DEFINE c == Clear(t)
             e == Emptied(c)
             h == Show(e, SignedOut(FALSE))
             u == [h EXCEPT !.leaving = FALSE, !.left = TRUE]
  <1>1. /\ c \in Tab
        /\ c.access = NoToken /\ c.refresh = NoToken
        /\ c.request = t.request \/ RequestsEmptied(t, c)
        /\ SamePlace(t, c) /\ SameSigning(t, c)
        /\ c.exchange = t.exchange
    BY ClearIs
  <1>2. /\ e \in Tab
        /\ RequestsEmptied(c, e)
        /\ SameTokens(c, e) /\ SamePlace(c, e) /\ SameSigning(c, e)
        /\ e.exchange = c.exchange
    BY <1>1, EmptiedIs
  <1>3. SignedOut(FALSE) \in AuthState /\ SignedOut(FALSE).status = "signed-out"
    BY ScreensAre DEF SignedOut
  <1>4. /\ h \in Tab
        /\ h.ui = SignedOut(FALSE) /\ h.restoring = "no"
        /\ SameTokens(e, h) /\ SameRequests(e, h) /\ SamePlace(e, h) /\ SameSigning(e, h)
        /\ h.exchange = e.exchange
    BY <1>2, <1>3, ShowIs
  <1>5. /\ u \in Tab
        /\ SameTokens(h, u) /\ SameScreen(h, u) /\ SameRequests(h, u) /\ SameSigning(h, u)
        /\ u.atLogin = h.atLogin /\ u.from = h.from /\ u.left
        /\ u.exchange = h.exchange /\ ~u.leaving
    <2> HIDE DEF h
    <2>1. QED
      BY <1>4 DEF Tab, SameTokens, SameScreen, SameRequests, SameSigning
  <1>6. \A s \in Slots : e.request[s] = [t.request[s] EXCEPT !.kept = FALSE]
    <2> HIDE DEF c, e
    <2>1. \A s \in Slots : t.request[s] \in Request
      BY DEF Tab
    <2>2. \A s \in Slots : \/ c.request[s] = t.request[s]
                           \/ c.request[s] = [t.request[s] EXCEPT !.kept = FALSE]
      BY <1>1 DEF RequestsEmptied
    <2>3. \A s \in Slots : e.request[s] = [c.request[s] EXCEPT !.kept = FALSE]
      BY <1>2 DEF RequestsEmptied
    <2>4. QED
      BY <2>1, <2>2, <2>3 DEF Request
  <1>7. Leave(t) = u
    BY DEF Leave
  <1> HIDE DEF c, e, h, u
  <1>8. e.cache = {}
    BY <1>2 DEF RequestsEmptied
  <1>9. u.cache = {} /\ \A s \in Slots : u.request[s] = [t.request[s] EXCEPT !.kept = FALSE]
    BY <1>4, <1>5, <1>6, <1>8 DEF SameRequests
  <1>10. /\ u.access = NoToken /\ u.refresh = NoToken
         /\ u.ui = SignedOut(FALSE) /\ u.restoring = "no"
         /\ u.atLogin = t.atLogin /\ u.from = t.from
         /\ SameSigning(t, u)
         /\ u.exchange = t.exchange
    BY <1>1, <1>2, <1>4, <1>5 DEF SameTokens, SameScreen, SamePlace, SameSigning
  <1>11. QED
    BY <1>5, <1>7, <1>9, <1>10

\* refreshSession(): there is one exchange at most, of the token the tab holds.
LEMMA BeginExchangeIs ==
  ASSUME NEW t \in Tab, ConstantsOK
  PROVE  LET u == BeginExchange(t)
         IN  /\ u \in Tab
             /\ t.exchange.pc # "none" => u = t
             /\ t.exchange.pc = "none" =>
                  u.exchange.pc = "sent" /\ u.exchange.token = t.refresh /\ u.exchange.attempt = 0
             /\ SameTokens(t, u) /\ SameScreen(t, u) /\ SameRequests(t, u) /\ SamePlace(t, u)
             /\ SameSigning(t, u) /\ u.leaving = t.leaving
  <1> DEFINE x == [NoExchange EXCEPT !.pc = "sent", !.token = t.refresh]
  <1>1. NoExchange \in Exchange /\ t.refresh \in Pairs \cup {NoToken}
    BY DEF NoExchange, Tab, Exchange, ConstantsOK
  <1>2. x \in Exchange /\ x.pc = "sent" /\ x.token = t.refresh /\ x.attempt = 0
    BY <1>1 DEF NoExchange, Exchange
  <1>3. CASE t.exchange.pc = "none"
    <2> HIDE DEF x
    <2>1. BeginExchange(t) = [t EXCEPT !.exchange = x]
      BY <1>3 DEF BeginExchange, x
    <2>2. QED
      BY <1>2, <1>3, <2>1
      DEF Tab, SameTokens, SameScreen, SameRequests, SamePlace, SameSigning
  <1>4. CASE t.exchange.pc # "none"
    BY <1>4 DEF BeginExchange, SameTokens, SameScreen, SameRequests, SamePlace, SameSigning
  <1>5. QED
    BY <1>3, <1>4

\* session.set().
LEMMA StoreIs ==
  ASSUME NEW t \in Tab, NEW p \in Pairs
  PROVE  LET u == Store(t, p)
         IN  /\ u \in Tab
             /\ u.access = p /\ u.refresh = p
             /\ SameScreen(t, u) /\ SameRequests(t, u) /\ SamePlace(t, u) /\ SameSigning(t, u)
             /\ u.exchange = t.exchange /\ u.leaving = t.leaving
  BY DEF Store, Tab, SameScreen, SameRequests, SamePlace, SameSigning

-----------------------------------------------------------------------------
(***************************************************************************)
(* Types.  TypeOK is not inductive: an attempt that waits has another to   *)
(* come, a cache is of users because every token that a request may be     *)
(* answered for has been issued to one, and so has the token an exchange   *)
(* presents.                                                               *)
(***************************************************************************)

\* A tab, all of whose tokens are among the pairs K.
Fit(K, t) ==
  /\ t \in Tab
  /\ t.access \in K \cup {NoToken} /\ t.refresh \in K \cup {NoToken}
  /\ \A s \in Slots : t.request[s].token \in K \cup {NoToken}
  /\ t.exchange.pc # "none" => t.exchange.token \in K
  /\ t.exchange.pc = "waiting" => t.exchange.attempt < Retries
  /\ t.signing = "login" => t.account \in Users

\* To forget and to show changes no token.
LEMMA PlainFits ==
  ASSUME NEW K \in SUBSET Pairs, NEW t, Fit(K, t)
  PROVE  /\ Fit(K, Emptied(t))
         /\ Fit(K, Render(t))
         /\ Fit(K, Clear(t))
         /\ Fit(K, Leave(t))
         /\ \A ui \in AuthState : Fit(K, Show(t, ui))
         /\ \A p \in K : Fit(K, Store(t, p))
  <1>1. t \in Tab /\ \A s \in Slots : t.request[s] \in Request
    BY DEF Fit, Tab
  <1>2. \A u \in Tab : RequestsEmptied(t, u) => \A s \in Slots : u.request[s].token = t.request[s].token
    BY <1>1 DEF RequestsEmptied, Request
  <1>3. Fit(K, Emptied(t))
    BY <1>1, <1>2, EmptiedIs DEF Fit, SameTokens, SameSigning
  <1>4. Fit(K, Render(t))
    BY <1>1, RenderIs DEF Fit, SameTokens, SameRequests, SameSigning
  <1>5. Fit(K, Clear(t))
    <2>1. CASE HadSession(t)
      <3> DEFINE u == Clear(t)
      <3>1. /\ u \in Tab /\ RequestsEmptied(t, u) /\ SameSigning(t, u)
            /\ u.access = NoToken /\ u.refresh = NoToken /\ u.exchange = t.exchange
        BY <1>1, <2>1, ClearIs
      <3> SUFFICES Fit(K, u)
        OBVIOUS
      <3> HIDE DEF u
      <3>2. QED
        BY <1>2, <3>1 DEF Fit, SameSigning
    <2>2. CASE ~HadSession(t)
      BY <1>1, <2>2, ClearIs
    <2>3. QED
      BY <2>1, <2>2
  <1>6. Fit(K, Leave(t))
    <2>1. \A s \in Slots : [t.request[s] EXCEPT !.kept = FALSE].token = t.request[s].token
      BY <1>1 DEF Request
    <2> DEFINE u == Leave(t)
    <2>2. /\ u \in Tab /\ SameSigning(t, u)
          /\ u.access = NoToken /\ u.refresh = NoToken /\ u.exchange = t.exchange
          /\ \A s \in Slots : u.request[s] = [t.request[s] EXCEPT !.kept = FALSE]
      BY <1>1, LeaveIs
    <2> SUFFICES Fit(K, u)
      OBVIOUS
    <2> HIDE DEF u
    <2>3. QED
      BY <2>1, <2>2 DEF Fit, SameSigning
  <1>7. ASSUME NEW ui \in AuthState PROVE Fit(K, Show(t, ui))
    BY <1>1, ShowIs DEF Fit, SameTokens, SameRequests, SameSigning
  <1>8. ASSUME NEW p \in K PROVE Fit(K, Store(t, p))
    <2>1. p \in Pairs
      OBVIOUS
    <2>2. QED
      BY <1>1, <2>1, StoreIs DEF Fit, SameRequests, SameSigning
  <1>9. QED
    BY <1>3, <1>4, <1>5, <1>6, <1>7, <1>8

\* A request is sent with, and an exchange presents, a token that the tab holds.
LEMMA SentFits ==
  ASSUME NEW K \in SUBSET Pairs, NEW t, Fit(K, t), ConstantsOK
  PROVE  /\ \A s \in Slots, retry, kept \in BOOLEAN : Fit(K, Send(t, s, retry, kept))
         /\ ~Refusable(t) => Fit(K, BeginExchange(t))
  <1>1. t \in Tab
    BY DEF Fit
  <1>2. ASSUME NEW s \in Slots, NEW retry \in BOOLEAN, NEW kept \in BOOLEAN
        PROVE  Fit(K, Send(t, s, retry, kept))
    <2> DEFINE u == Send(t, s, retry, kept)
    <2>1. /\ u \in Tab
          /\ u.request = [t.request EXCEPT ![s] = [pc |-> "sent", token |-> t.access,
                                                   retry |-> retry, kept |-> kept]]
          /\ SameTokens(t, u) /\ SameSigning(t, u) /\ u.exchange = t.exchange
      BY <1>1, SendIs
    <2> SUFFICES Fit(K, u)
      OBVIOUS
    <2> HIDE DEF u
    <2>2. \A o \in Slots : u.request[o].token \in {t.request[o].token, t.access}
      BY <1>1, <2>1 DEF Tab
    <2>3. QED
      BY <2>1, <2>2 DEF Fit, SameTokens, SameSigning
  <1>3. ASSUME ~Refusable(t) PROVE Fit(K, BeginExchange(t))
    BY <1>1, <1>3, BeginExchangeIs DEF Refusable, Fit, SameTokens, SameRequests, SameSigning
  <1>4. QED
    BY <1>2, <1>3

\* The tab in which request s has been answered, or given up.
Done(t, s) == [t EXCEPT !.request[s] = Idle]

\* What it leaves alone.
LEMMA DoneIs ==
  ASSUME NEW t \in Tab, NEW s \in Slots
  PROVE  LET u == Done(t, s)
         IN  /\ u \in Tab
             /\ u.request = [t.request EXCEPT ![s] = Idle]
             /\ u.cache = t.cache
             /\ SameTokens(t, u) /\ SameScreen(t, u) /\ SamePlace(t, u) /\ SameSigning(t, u)
             /\ u.exchange = t.exchange /\ u.leaving = t.leaving
  <1>1. [t.request EXCEPT ![s] = Idle] \in [Slots -> Request]
    BY DEF Tab, Request, Idle
  <1>2. QED
    BY <1>1 DEF Done, Tab, SameTokens, SameScreen, SamePlace, SameSigning

\* It holds no token that the tab did not hold.
LEMMA DoneFits ==
  ASSUME NEW K \in SUBSET Pairs, NEW t, Fit(K, t), NEW s \in Slots
  PROVE  Fit(K, Done(t, s))
  <1> DEFINE u == Done(t, s)
  <1>1. t \in Tab
    BY DEF Fit
  <1>2. /\ u \in Tab
        /\ u.request = [t.request EXCEPT ![s] = Idle]
        /\ SameTokens(t, u) /\ SameSigning(t, u) /\ u.exchange = t.exchange
    BY <1>1, DoneIs
  <1> SUFFICES Fit(K, u)
    OBVIOUS
  <1> HIDE DEF u
  <1>3. \A o \in Slots : u.request[o].token \in {t.request[o].token, NoToken}
    BY <1>1, <1>2 DEF Tab, Idle
  <1>4. QED
    BY <1>2, <1>3 DEF Fit, SameTokens, SameSigning

\* signIn is over, one way or the other.
Signed(t) == [t EXCEPT !.signing = "no", !.account = Nobody]

\* What it leaves alone.
LEMMA SignedIs ==
  ASSUME NEW t \in Tab
  PROVE  LET u == Signed(t)
         IN  /\ u \in Tab
             /\ u.signing = "no" /\ u.account = Nobody
             /\ SameTokens(t, u) /\ SameScreen(t, u) /\ SamePlace(t, u) /\ SameRequests(t, u)
             /\ u.exchange = t.exchange /\ u.leaving = t.leaving
  BY DEF Signed, Tab, SameTokens, SameScreen, SamePlace, SameRequests

\* It changes no token.
LEMMA SignedFits ==
  ASSUME NEW K \in SUBSET Pairs, NEW t, Fit(K, t)
  PROVE  Fit(K, Signed(t))
  BY SignedIs DEF Fit, SameTokens, SameRequests

\* signIn goes on.
LEMMA SigningIs ==
  ASSUME NEW t \in Tab, NEW signing \in {"no", "login", "me"}
  PROVE  LET u == [t EXCEPT !.signing = signing]
         IN  /\ u \in Tab
             /\ u.signing = signing /\ u.account = t.account
             /\ SameTokens(t, u) /\ SameScreen(t, u) /\ SamePlace(t, u) /\ SameRequests(t, u)
             /\ u.exchange = t.exchange /\ u.leaving = t.leaving
  BY DEF Tab, SameTokens, SameScreen, SamePlace, SameRequests

\* It changes no token.
LEMMA SigningFits ==
  ASSUME NEW K \in SUBSET Pairs, NEW t, Fit(K, t)
  PROVE  Fit(K, [t EXCEPT !.signing = "me"])
  BY SigningIs DEF Fit, SameTokens, SameRequests

\* The restoring effect goes on to ask who is signed in, or for a refresh.
LEMMA RestoringIs ==
  ASSUME NEW t \in Tab, NEW restoring \in {"no", "refreshing", "me"}
  PROVE  LET u == [t EXCEPT !.restoring = restoring]
         IN  /\ u \in Tab
             /\ u.restoring = restoring /\ u.ui = t.ui
             /\ SameTokens(t, u) /\ SamePlace(t, u) /\ SameRequests(t, u) /\ SameSigning(t, u)
             /\ u.exchange = t.exchange /\ u.leaving = t.leaving
  BY DEF Tab, SameTokens, SamePlace, SameRequests, SameSigning

\* It changes no token.
LEMMA EffectFits ==
  ASSUME NEW K \in SUBSET Pairs, NEW t, Fit(K, t), NEW restoring \in {"no", "refreshing", "me"}
  PROVE  Fit(K, [t EXCEPT !.restoring = restoring])
  BY RestoringIs DEF Fit, SameTokens, SameRequests, SameSigning

\* What the promises that settle do to the tab.
LEMMA RejectFits ==
  ASSUME NEW K \in SUBSET Pairs, NEW t, Fit(K, t), NEW s \in Slots, NEW unauthorized \in BOOLEAN
  PROVE  Fit(K, Reject(t, s, unauthorized))
  <1> DEFINE u == Done(t, s)
  <1>1. Fit(K, u)
    BY DoneFits
  <1>2. Fit(K, Clear(u)) /\ \A ui \in AuthState : Fit(K, Show(u, ui))
    <2> HIDE DEF u
    <2>1. QED
      BY <1>1, PlainFits
  <1>3. Fit(K, Signed(Clear(u)))
    <2> HIDE DEF u
    <2>1. QED
      BY <1>2, SignedFits
  <1>4. Reject(t, s, unauthorized) \in
          {u, Signed(Clear(u)), Show(u, SignedOut(TRUE)), Show(u, Unavailable)}
    BY DEF Reject, Done, Signed
  <1> HIDE DEF u
  <1>5. QED
    BY <1>1, <1>2, <1>3, <1>4, ScreensAre

Outcomes == {"renewed", "refused", "unavailable"}

\* What the restoring effect does with the outcome of a refresh: it may send with the token held.
LEMMA RestoreRefreshedFits ==
  ASSUME NEW K \in SUBSET Pairs, NEW t, Fit(K, t), NEW outcome \in Outcomes, ConstantsOK
  PROVE  Fit(K, RestoreRefreshed(t, outcome))
  <1>1. Fit(K, Send([t EXCEPT !.restoring = "me"], Me, FALSE, FALSE))
    <2>1. Fit(K, [t EXCEPT !.restoring = "me"])
      BY EffectFits
    <2>2. Me \in Slots
      BY DEF Slots
    <2>3. QED
      BY <2>1, <2>2, SentFits
  <1>2. Fit(K, Show(t, SignedOut(TRUE))) /\ Fit(K, Show(t, Unavailable))
    BY PlainFits, ScreensAre
  <1>3. QED
    BY <1>1, <1>2 DEF RestoreRefreshed, Outcomes

\* The effect presents the token the tab holds, if it holds one.
LEMMA StartRestoreFits ==
  ASSUME NEW K \in SUBSET Pairs, NEW t, Fit(K, t), ConstantsOK
  PROVE  Fit(K, StartRestore(t))
  <1> DEFINE u == [Show(t, Loading) EXCEPT !.restoring = "refreshing"]
  <1>1. Fit(K, u)
    BY PlainFits, ScreensAre, EffectFits
  <1>2. StartRestore(t) = IF t.ui.status = "loading" THEN t
                          ELSE IF Refusable(u) THEN RestoreRefreshed(u, "refused")
                          ELSE BeginExchange(u)
    BY DEF StartRestore
  <1> HIDE DEF u
  <1>3. Fit(K, RestoreRefreshed(u, "refused"))
    BY <1>1, RestoreRefreshedFits DEF Outcomes
  <1>4. ~Refusable(u) => Fit(K, BeginExchange(u))
    BY <1>1, SentFits
  <1>5. QED
    BY <1>2, <1>3, <1>4

\* The exchange is over, and those who wait for it go on.
Settled(t, outcome) ==
  [t EXCEPT !.exchange = NoExchange,
            !.request = [s \in Slots |->
              IF t.request[s].pc # "waiting" THEN t.request[s]
              ELSE IF outcome = "renewed"
                     THEN [t.request[s] EXCEPT !.pc = "sent", !.token = t.access, !.retry = TRUE]
                     ELSE Idle]]

\* What becomes of one request x when the exchange has settled, in a tab with token access.
GoesOn(x, y, access, outcome) ==
  /\ x.pc # "waiting" => y = x
  /\ x.pc = "waiting" /\ outcome = "renewed" =>
       y.pc = "sent" /\ y.token = access /\ y.retry /\ y.kept = x.kept
  /\ x.pc = "waiting" /\ outcome # "renewed" => y = Idle

\* Each request that waited goes on as the outcome says, and nothing else changes.
LEMMA SettledIs ==
  ASSUME NEW t \in Tab, NEW outcome, ConstantsOK
  PROVE  LET u == Settled(t, outcome)
         IN  /\ u \in Tab
             /\ u.exchange = NoExchange
             /\ \A s \in Slots : GoesOn(t.request[s], u.request[s], t.access, outcome)
             /\ u.cache = t.cache
             /\ SameTokens(t, u) /\ SameScreen(t, u) /\ SamePlace(t, u) /\ SameSigning(t, u)
             /\ u.leaving = t.leaving
  <1> DEFINE Sent(x) == [x EXCEPT !.pc = "sent", !.token = t.access, !.retry = TRUE]
             Onward(x) == IF x.pc # "waiting" THEN x
                         ELSE IF outcome = "renewed" THEN Sent(x) ELSE Idle
             R == [s \in Slots |-> Onward(t.request[s])]
             u == Settled(t, outcome)
  <1>1. t.access \in Pairs \cup {NoToken} /\ \A s \in Slots : t.request[s] \in Request
    BY DEF Tab
  <1>2. ASSUME NEW x \in Request
        PROVE  /\ Sent(x) \in Request
               /\ Sent(x).pc = "sent" /\ Sent(x).token = t.access
               /\ Sent(x).retry /\ Sent(x).kept = x.kept
    BY <1>1 DEF Request
  <1>3. ASSUME NEW x \in Request
        PROVE  Onward(x) \in Request /\ GoesOn(x, Onward(x), t.access, outcome)
    <2>1. Idle \in Request
      BY DEF Idle, Request
    <2> HIDE DEF Sent
    <2>2. QED
      BY <1>2, <2>1 DEF GoesOn
  <1>4. Settled(t, outcome) = [t EXCEPT !.exchange = NoExchange, !.request = R]
    BY DEF Settled
  <1>5. R \in [Slots -> Request] /\ \A s \in Slots : R[s] = Onward(t.request[s])
    <2> HIDE DEF Onward
    <2>1. QED
      BY <1>1, <1>3
  <1>6. NoExchange \in Exchange
    BY DEF NoExchange, Exchange, ConstantsOK
  <1>7. /\ u \in Tab
        /\ u.exchange = NoExchange /\ u.request = R /\ u.cache = t.cache
        /\ SameTokens(t, u) /\ SameScreen(t, u) /\ SamePlace(t, u) /\ SameSigning(t, u)
        /\ u.leaving = t.leaving
    <2> HIDE DEF R
    <2>1. QED
      BY <1>4, <1>5, <1>6 DEF Tab, SameTokens, SameScreen, SamePlace, SameSigning
  <1> SUFFICES \A s \in Slots : GoesOn(t.request[s], u.request[s], t.access, outcome)
    BY <1>7
  <1> HIDE DEF R, Onward, u
  <1>8. QED
    BY <1>1, <1>3, <1>5, <1>7

\* No token but those the tab held is held, or sent with, when an exchange has settled.
LEMMA SettleFits ==
  ASSUME NEW K \in SUBSET Pairs, NEW t, Fit(K, t), NEW outcome \in Outcomes, ConstantsOK
  PROVE  Fit(K, Settle(t, outcome))
  <1> DEFINE u == Settled(t, outcome)
             v == RestoreRefreshed(u, outcome)
             w == Reject(v, Me, TRUE)
  <1>1. Fit(K, u)
    <2>1. /\ u \in Tab /\ u.exchange = NoExchange
          /\ \A s \in Slots : u.request[s].token \in {t.request[s].token, t.access, NoToken}
          /\ SameTokens(t, u) /\ SameSigning(t, u)
      BY SettledIs DEF Fit, GoesOn, Idle
    <2> HIDE DEF u
    <2>2. QED
      BY <2>1 DEF Fit, SameTokens, SameSigning, NoExchange
  <1>2. Fit(K, v)
    <2> HIDE DEF u
    <2>1. QED
      BY <1>1, RestoreRefreshedFits
  <1>3. Fit(K, w)
    <2> HIDE DEF v
    <2>1. QED
      BY <1>2, RejectFits DEF Slots
  <1>4. Fit(K, Leave(v)) /\ Fit(K, Leave(w))
    <2> HIDE DEF v, w
    <2>1. QED
      BY <1>2, <1>3, PlainFits
  <1>5. Settle(t, outcome) \in {v, w, Leave(v), Leave(w)}
    BY DEF Settle, Settled, Fit, Tab
  <1> HIDE DEF u, v, w
  <1>6. QED
    BY <1>2, <1>3, <1>4, <1>5

\* A page that has just been loaded.
LEMMA BlankFits ==
  ASSUME NEW K \in SUBSET Pairs, NEW p \in K \cup {NoToken}, NEW login \in BOOLEAN, ConstantsOK
  PROVE  Fit(K, Blank(p, login))
  <1> DEFINE t == [ access |-> NoToken, refresh |-> p, ui |-> SignedOut(TRUE), atLogin |-> login,
                    from |-> FALSE, left |-> FALSE,
                    cache |-> {}, exchange |-> NoExchange, request |-> [s \in Slots |-> Idle],
                    restoring |-> "no", signing |-> "no", account |-> Nobody, leaving |-> FALSE ]
  <1>1. SignedOut(TRUE) \in AuthState /\ NoExchange \in Exchange /\ Idle \in Request
    <2>1. SignedOut(TRUE) \in AuthState
      BY ScreensAre
    <2>2. NoExchange \in Exchange
      BY DEF NoExchange, Exchange, ConstantsOK
    <2>3. Idle \in Request
      BY DEF Idle, Request
    <2>4. QED
      BY <2>1, <2>2, <2>3
  <1>2. t \in Tab
    BY <1>1 DEF Tab
  <1>3. Fit(K, t)
    BY <1>2 DEF Fit, NoExchange, Idle
  <1>4. Fit(K, StartRestore(t))
    <2> HIDE DEF t
    <2>1. QED
      BY <1>3, StartRestoreFits
  <1>5. Blank(p, login) \in {t, StartRestore(t)}
    BY DEF Blank
  <1> HIDE DEF t
  <1>6. QED
    BY <1>3, <1>4, <1>5

\* Tokens stay known when more become so.
LEMMA MoreFits ==
  ASSUME NEW K, NEW L, K \subseteq L, NEW t, Fit(K, t)
  PROVE  Fit(L, t)
  BY DEF Fit

\* The pairs that have been issued, each to a user.
Known == {p \in Pairs : pair[p].state # "unused"}

TypeInv ==
  /\ TypeOK
  /\ \A p \in Known : pair[p].user \in Users
  /\ Fit(Known, tab)
  /\ frozen # Nobody => Fit(Known, frozen)
  /\ parked \in Known \cup {NoToken}

\* Whatever the server does, a pair that has been issued stays its user's.
Extends ==
  /\ pair' \in [Pairs -> [user : Users \cup {Nobody}, state : PairState]]
  /\ \A p \in Known : p \in Known' /\ pair'[p].user = pair[p].user
  /\ \A p \in Known' : pair'[p].user \in Users
  /\ alarms' \subseteq Pairs

\* A pair just issued is a new one, live and its user's; the others are as they were.
LEMMA IssuedIs ==
  ASSUME TypeInv, NEW p \in Fresh, NEW u \in Users
  PROVE  /\ p \in Pairs \ Known
         /\ Issued(p, u) \in [Pairs -> [user : Users \cup {Nobody}, state : PairState]]
         /\ Issued(p, u)[p].user = u /\ Issued(p, u)[p].state = "live"
         /\ \A q \in Pairs \ {p} : Issued(p, u)[q] = pair[q]
  BY DEF TypeInv, TypeOK, Fresh, Known, Issued, PairState

\* A user's sessions end, and nobody else's; no pair changes hands.
LEMMA SessionsEndedIs ==
  ASSUME TypeInv, NEW u
  PROVE  /\ EndEverySession(u) \in [Pairs -> [user : Users \cup {Nobody}, state : PairState]]
         /\ \A q \in Pairs : /\ EndEverySession(u)[q].user = pair[q].user
                             /\ EndEverySession(u)[q].state \in {pair[q].state, "ended"}
                             /\ pair[q].user # u => EndEverySession(u)[q] = pair[q]
  BY DEF TypeInv, TypeOK, EndEverySession, PairState

\* A server that does nothing keeps its promise,
LEMMA UnchangedExtends ==
  ASSUME TypeInv, UNCHANGED <<pair, alarms>>
  PROVE  Extends
  BY DEF TypeInv, TypeOK, Extends, Known

\* and so does one that ends every session of a user,
LEMMA SpentExtends ==
  ASSUME TypeInv, NEW t \in Pairs, pair[t].state = "spent",
         pair' = EndEverySession(Owner(t)), alarms' = alarms \cup {t}
  PROVE  Extends
  <1>1. Owner(t) \in Users
    BY DEF Owner, NoToken, Pairs, TypeInv, Known
  <1>2. /\ pair' \in [Pairs -> [user : Users \cup {Nobody}, state : PairState]]
        /\ \A q \in Pairs : /\ pair'[q].user = pair[q].user
                            /\ pair'[q].state \in {pair[q].state, "ended"}
                            /\ pair[q].user # Owner(t) => pair'[q] = pair[q]
    BY SessionsEndedIs
  <1>3. QED
    BY <1>1, <1>2 DEF Extends, Known, TypeInv, TypeOK

\* one that serves a refresh, whose answer is a new pair of the same user,
LEMMA ServedExtends ==
  ASSUME TypeInv, NEW t \in Pairs, NEW answer \in Fresh \cup {NoToken}, RefreshServed(t, answer)
  PROVE  Extends /\ (answer # NoToken => answer \in Known' \ Known /\ pair'[answer].user = Owner(t))
  <1>0. t # NoToken /\ Owner(t) = pair[t].user
    BY DEF Pairs, NoToken, Owner
  <1>1. CASE /\ pair[t].state = "live"
             /\ answer \in Fresh
             /\ pair' = [Issued(answer, Owner(t)) EXCEPT ![t].state = "rotated"]
             /\ UNCHANGED alarms
    <2>1. t \in Known /\ Owner(t) \in Users
      BY <1>0, <1>1 DEF TypeInv, Known
    <2> DEFINE f == Issued(answer, Owner(t))
    <2>2. /\ answer \in Pairs \ Known
          /\ f \in [Pairs -> [user : Users \cup {Nobody}, state : PairState]]
          /\ f[answer].user = Owner(t) /\ f[answer].state = "live"
          /\ \A q \in Pairs \ {answer} : f[q] = pair[q]
      BY <1>1, <2>1, IssuedIs
    <2> HIDE DEF f
    <2>3. pair' = [f EXCEPT ![t].state = "rotated"] /\ UNCHANGED alarms
      BY <1>1 DEF f
    <2>4. /\ pair' \in [Pairs -> [user : Users \cup {Nobody}, state : PairState]]
          /\ \A q \in Pairs : pair'[q].user = f[q].user
          /\ pair'[t].state = "rotated"
          /\ \A q \in Pairs \ {t} : pair'[q] = f[q]
      BY <2>2, <2>3 DEF PairState
    <2>5. \A q \in Pairs : q \in Known' <=> (q \in Known \/ q = answer)
      BY <2>1, <2>2, <2>4 DEF Known
    <2>6. \A q \in Known \cup {answer} : pair'[q].user \in Users
      BY <2>1, <2>2, <2>4 DEF TypeInv, Known
    <2>7. QED
      BY <2>1, <2>2, <2>3, <2>4, <2>5, <2>6 DEF Extends, Known, TypeInv, TypeOK
  <1>2. CASE answer = NoToken /\ UNCHANGED <<pair, alarms>>
    BY <1>2, UnchangedExtends
  <1>3. CASE /\ pair[t].state = "spent" /\ answer = NoToken
             /\ pair' = EndEverySession(Owner(t)) /\ alarms' = alarms \cup {t}
    BY <1>3, SpentExtends
  <1>4. QED
    BY <1>1, <1>2, <1>3 DEF RefreshServed

\* one whose answer is lost,
LEMMA LostExtends ==
  ASSUME TypeInv, NEW t \in Pairs, RefreshLost(t)
  PROVE  Extends
  BY ServedExtends, UnchangedExtends DEF RefreshLost

\* and one that serves a logout.
LEMMA LogoutExtends ==
  ASSUME TypeInv, NEW t \in Pairs \cup {NoToken}, LogoutServed(t)
  PROVE  Extends
  <1>1. CASE UNCHANGED <<pair, alarms>>
    BY <1>1, UnchangedExtends
  <1>2. CASE t # NoToken /\ pair' = [pair EXCEPT ![t].state = "ended"] /\ pair[t].state = "live"
             /\ UNCHANGED alarms
    BY <1>2 DEF Extends, Known, TypeInv, TypeOK, PairState
  <1>3. CASE /\ t # NoToken /\ pair[t].state = "spent"
             /\ pair' = EndEverySession(Owner(t)) /\ alarms' = alarms \cup {t}
    <2>1. t \in Pairs
      BY <1>3
    <2>2. QED
      BY <1>3, <2>1, SpentExtends
  <1>4. QED
    BY <1>1, <1>2, <1>3 DEF LogoutServed

\* The data that a good answer leaves in the cache.
LEMMA CacheIs ==
  ASSUME NEW t \in Tab, NEW who \in Users
  PROVE  LET u == [t EXCEPT !.cache = @ \cup {who}]
         IN  /\ u \in Tab
             /\ u.cache = t.cache \cup {who} /\ u.request = t.request
             /\ SameTokens(t, u) /\ SameScreen(t, u) /\ SamePlace(t, u) /\ SameSigning(t, u)
             /\ u.exchange = t.exchange /\ u.leaving = t.leaving
  BY DEF Tab, SameTokens, SameScreen, SamePlace, SameSigning

\* It changes no token.
LEMMA CacheFits ==
  ASSUME NEW K \in SUBSET Pairs, NEW t, Fit(K, t), NEW who \in Users
  PROVE  Fit(K, [t EXCEPT !.cache = @ \cup {who}])
  BY CacheIs DEF Fit, SameTokens, SameSigning

\* What a good answer to request s makes of the tab (RequestOk), before it is drawn.
Ok(t, s, who) ==
  LET done == Done(t, s)
  IN  IF s # Me
        THEN IF t.request[s].kept THEN [done EXCEPT !.cache = @ \cup {who}] ELSE done
      ELSE IF t.signing = "me" THEN Show(Emptied(Signed(done)), SignedIn(who))
      ELSE IF t.restoring = "me" THEN Show(done, SignedIn(who))
      ELSE done

\* A good answer changes no token.
LEMMA OkFits ==
  ASSUME NEW K \in SUBSET Pairs, NEW t, Fit(K, t), NEW s \in Slots, NEW who \in Users
  PROVE  Fit(K, Ok(t, s, who))
  <1> DEFINE done == Done(t, s)
  <1>1. Fit(K, done)
    BY DoneFits
  <1> HIDE DEF done
  <1>2. Fit(K, [done EXCEPT !.cache = @ \cup {who}])
    BY <1>1, CacheFits
  <1>3. Fit(K, Show(Emptied(Signed(done)), SignedIn(who)))
    BY <1>1, SignedFits, PlainFits, ScreensAre
  <1>4. Fit(K, Show(done, SignedIn(who)))
    BY <1>1, PlainFits, ScreensAre
  <1>5. QED
    BY <1>1, <1>2, <1>3, <1>4 DEF Ok, done

\* RequestOk, in terms of Ok.
LEMMA RequestOkIs ==
  ASSUME NEW s \in Slots, RequestOk(s)
  PROVE  /\ open /\ tab.request[s].pc = "sent" /\ tab.request[s].token # NoToken
         /\ tab' = Render(Ok(tab, s, Owner(tab.request[s].token)))
         /\ UNCHANGED <<pair, expired, open, parked, frozen, hidden, abandoned, alarms>>
  BY DEF RequestOk, Ok, Done, Signed, Draw

\* A token that somebody holds has an owner.
LEMMA OwnersAre ==
  ASSUME TypeInv, NEW p \in Known
  PROVE  p # NoToken /\ Owner(p) = pair[p].user /\ Owner(p) \in Users
  BY DEF TypeInv, Known, Owner, Pairs, NoToken

\* What has to be seen of a step in which the server keeps its promise.
LEMMA TypeFrom ==
  ASSUME TypeInv, Extends, Fit(Known', tab'),
         frozen' \in Tab \cup {Nobody}, frozen' # Nobody => Fit(Known', frozen'),
         parked' \in Known' \cup {NoToken},
         expired' \subseteq Pairs, open' \in BOOLEAN, hidden' \in 0 .. MaxPages,
         abandoned' \subseteq Pairs
  PROVE  TypeInv'
  BY DEF TypeInv, TypeOK, Extends, Fit, Known

\* What fitted before a step in which the server keeps its promise fits after it.
LEMMA KnownFits ==
  ASSUME TypeInv, Extends
  PROVE  /\ Known' \in SUBSET Pairs /\ Known \in SUBSET Pairs
         /\ \A t : Fit(Known, t) => Fit(Known', t)
         /\ Fit(Known', tab)
         /\ frozen # Nobody => Fit(Known', frozen)
         /\ parked \in Known' \cup {NoToken}
  <1>1. Known \subseteq Known'
    BY DEF Extends
  <1>2. \A t : Fit(Known, t) => Fit(Known', t)
    BY <1>1, MoreFits
  <1>3. QED
    BY <1>1, <1>2 DEF TypeInv, Known

\* Every step of the tab and of the server keeps the types.
LEMMA TypeStep ==
  ASSUME ConstantsOK, TypeInv, [Next]_vars
  PROVE  TypeInv'
  <1>0. /\ Fit(Known, tab) /\ Known \in SUBSET Pairs /\ tab \in Tab
        /\ frozen \in Tab \cup {Nobody} /\ expired \subseteq Pairs /\ open \in BOOLEAN
        /\ hidden \in 0 .. MaxPages /\ abandoned \subseteq Pairs
    BY DEF TypeInv, TypeOK, Known
  <1> DEFINE Others == UNCHANGED <<expired, open, parked, frozen, hidden, abandoned>>
  <1>a. ASSUME Extends, Fit(Known', tab'), UNCHANGED <<expired, open, parked, frozen, hidden>>,
               abandoned' \subseteq Pairs
        PROVE  TypeInv'
    BY <1>0, <1>a, KnownFits, TypeFrom
  <1>b. ASSUME Fit(Known, tab'), Others, UNCHANGED <<pair, alarms>>
        PROVE  TypeInv'
    BY <1>0, <1>a, <1>b, UnchangedExtends, KnownFits
  <1>1. ASSUME NEW p \in Pairs, SessionEnds(p) \/ GraceEnds(p) \/ Expire(p)
        PROVE  TypeInv'
    <2>1. CASE Expire(p)
      BY <1>0, <2>1, UnchangedExtends, KnownFits, TypeFrom DEF Expire
    <2>2. CASE SessionEnds(p) \/ GraceEnds(p)
      <3>1. Extends
        BY <1>0, <2>2 DEF SessionEnds, GraceEnds, Extends, Known, TypeInv, TypeOK, PairState
      <3>2. QED
        BY <1>0, <1>a, <2>2, <3>1, KnownFits DEF SessionEnds, GraceEnds
    <2>3. QED
      BY <1>1, <2>1, <2>2
  <1>2. CASE RefreshAnswered
    <2>1. tab.exchange.token \in Known
      BY <1>0, <1>2 DEF RefreshAnswered, Fit
    <2>2. PICK answer \in Fresh \cup {NoToken} :
            /\ RefreshServed(tab.exchange.token, answer)
            /\ tab' = Render(IF answer # NoToken THEN Settle(Store(tab, answer), "renewed")
                                                 ELSE Settle(Clear(tab), "refused"))
      BY <1>2 DEF RefreshAnswered, Draw
    <2>3. Extends /\ (answer # NoToken => answer \in Known')
      BY <1>0, <2>1, <2>2, ServedExtends
    <2>4. Known' \in SUBSET Pairs /\ Fit(Known', tab)
      BY <2>3, KnownFits
    <2>5. answer # NoToken => Fit(Known', Settle(Store(tab, answer), "renewed"))
      BY <2>3, <2>4, PlainFits, SettleFits DEF Outcomes
    <2>6. Fit(Known', Settle(Clear(tab), "refused"))
      BY <2>4, PlainFits, SettleFits DEF Outcomes
    <2>7. Fit(Known', tab')
      BY <2>2, <2>4, <2>5, <2>6, PlainFits
    <2>8. QED
      BY <1>0, <1>2, <1>a, <2>3, <2>7 DEF RefreshAnswered
  <1>3. CASE RefreshUnanswered
    <2>1. tab.exchange.token \in Known
      BY <1>0, <1>3 DEF RefreshUnanswered, Fit
    <2>2. Extends
      BY <1>0, <1>3, <2>1, LostExtends DEF RefreshUnanswered
    <2>3. CASE tab.exchange.attempt < Retries
      <3>1. tab' = [tab EXCEPT !.exchange.pc = "waiting"] /\ UNCHANGED abandoned
        BY <1>3, <2>3 DEF RefreshUnanswered
      <3>2. Fit(Known, tab')
        BY <1>0, <2>1, <2>3, <3>1 DEF Fit, Tab, Exchange
      <3>3. QED
        BY <1>0, <1>3, <1>a, <2>2, <3>1, <3>2, KnownFits DEF RefreshUnanswered
    <2>4. CASE ~(tab.exchange.attempt < Retries)
      <3>1. tab' = Render(Settle(tab, "unavailable"))
            /\ abandoned' = abandoned \cup {tab.exchange.token}
        BY <1>3, <2>4 DEF RefreshUnanswered, Draw
      <3>2. Fit(Known, tab')
        BY <1>0, <3>1, PlainFits, SettleFits DEF Outcomes
      <3>3. QED
        BY <1>0, <1>3, <1>a, <2>1, <2>2, <3>1, <3>2, KnownFits DEF RefreshUnanswered
    <2>5. QED
      BY <2>3, <2>4
  <1>4. CASE RefreshAgain
    <2>1. tab' = [tab EXCEPT !.exchange.pc = "sent", !.exchange.attempt = @ + 1]
      BY <1>4 DEF RefreshAgain
    <2> DEFINE x == [tab.exchange EXCEPT !.pc = "sent", !.attempt = @ + 1]
    <2>2. Fit(Known, tab')
      <3>1. tab.exchange \in Exchange /\ tab.exchange.attempt < Retries
        BY <1>0, <1>4 DEF RefreshAgain, Fit, Tab
      <3>2. x \in Exchange /\ x.pc = "sent" /\ x.token = tab.exchange.token
        <4>1. Retries \in Nat
          BY DEF ConstantsOK
        <4>2. tab.exchange.attempt + 1 \in 0 .. Retries
          BY <3>1, <4>1 DEF Exchange
        <4>3. QED
          BY <3>1, <4>2 DEF Exchange
      <3>3. tab' = [tab EXCEPT !.exchange = x]
        BY <1>0, <2>1 DEF Tab
      <3>4. tab.exchange.pc # "none"
        BY <1>4 DEF RefreshAgain
      <3> HIDE DEF x
      <3>5. QED
        BY <1>0, <3>2, <3>3, <3>4 DEF Fit, Tab
    <2>3. QED
      BY <1>4, <1>b, <2>2 DEF RefreshAgain
  <1>5. CASE LoggedIn
    <2>1. PICK p \in Fresh : /\ pair' = Issued(p, tab.account)
                             /\ tab' = Send([Store(tab, p) EXCEPT !.signing = "me"], Me, FALSE, FALSE)
      BY <1>5 DEF LoggedIn
    <2>2. tab.account \in Users
      BY <1>0, <1>5 DEF LoggedIn, Fit
    <2>3. Extends /\ p \in Known'
      <3>1. /\ p \in Pairs \ Known
            /\ pair' \in [Pairs -> [user : Users \cup {Nobody}, state : PairState]]
            /\ pair'[p].user = tab.account /\ pair'[p].state = "live"
            /\ \A q \in Pairs \ {p} : pair'[q] = pair[q]
        BY <2>1, <2>2, IssuedIs
      <3>2. alarms' = alarms
        BY <1>5 DEF LoggedIn
      <3>3. QED
        BY <2>2, <3>1, <3>2 DEF Extends, Known, TypeInv, TypeOK
    <2>4. Fit(Known', Store(tab, p)) /\ Known' \in SUBSET Pairs
      BY <2>3, KnownFits, PlainFits
    <2>5. Fit(Known', [Store(tab, p) EXCEPT !.signing = "me"])
      BY <2>4, SigningFits
    <2>6. Fit(Known', tab')
      BY <2>1, <2>4, <2>5, SentFits DEF Slots
    <2>7. QED
      BY <1>0, <1>5, <1>a, <2>3, <2>6 DEF LoggedIn
  <1>6. CASE LoginFails
    <2>1. tab' = Signed(tab)
      BY <1>6 DEF LoginFails, Signed
    <2>2. QED
      BY <1>0, <1>6, <1>b, <2>1, SignedFits DEF LoginFails
  <1>7. ASSUME NEW s \in Reads, Read(s)
        PROVE  TypeInv'
    <2>1. tab' = Send(tab, s, FALSE, TRUE) /\ s \in Slots
      BY <1>7 DEF Read, Slots
    <2>2. QED
      BY <1>0, <1>7, <1>b, <2>1, SentFits DEF Read
  <1>8. CASE Retry
    <2>1. tab' = Render(StartRestore(tab))
      BY <1>8 DEF Retry, Draw
    <2>2. QED
      BY <1>0, <1>8, <1>b, <2>1, StartRestoreFits, PlainFits DEF Retry
  <1>9. CASE SignOut
    <2>1. CASE tab.exchange.pc = "none"
      <3>1. LogoutServed(tab.refresh) /\ tab' = Render(Leave(tab))
        BY <1>9, <2>1 DEF SignOut, Draw
      <3>2. Extends
        BY <1>0, <3>1, LogoutExtends DEF Tab
      <3>3. Fit(Known, tab')
        BY <1>0, <3>1, PlainFits
      <3>4. QED
        BY <1>0, <1>9, <1>a, <3>2, <3>3, KnownFits DEF SignOut
    <2>2. CASE tab.exchange.pc # "none"
      <3>1. tab' = [tab EXCEPT !.leaving = TRUE] /\ UNCHANGED <<pair, alarms>>
        BY <1>9, <2>2 DEF SignOut
      <3>2. Fit(Known, tab')
        BY <1>0, <3>1 DEF Fit, Tab
      <3>3. QED
        BY <1>9, <1>b, <3>1, <3>2 DEF SignOut
    <2>3. QED
      BY <2>1, <2>2
  <1>10. ASSUME NEW u \in Users, SignIn(u)
         PROVE  TypeInv'
    <2>1. tab' = [tab EXCEPT !.signing = "login", !.account = u]
      BY <1>10 DEF SignIn
    <2>2. Fit(Known, tab')
      BY <1>0, <2>1 DEF Fit, Tab
    <2>3. QED
      BY <1>10, <1>b, <2>2 DEF SignIn
  <1>11. ASSUME NEW kept \in BOOLEAN, PageHide(kept)
         PROVE  TypeInv'
    <2>1. tab.exchange.pc # "none" => tab.exchange.token \in Known
      BY <1>0 DEF Fit
    <2>2. Extends
      BY <1>11, <2>1, LostExtends, UnchangedExtends DEF PageHide, Known
    <2>3. Fit(Known, tab') /\ Fit(Known', tab')
      BY <1>0, <1>11, <2>2, BlankFits, KnownFits DEF PageHide
    <2>4. parked' \in Known' \cup {NoToken}
      BY <1>0, <1>11, <2>2, KnownFits DEF PageHide, Fit
    <2>5. frozen' \in {tab, frozen}
      BY <1>11 DEF PageHide
    <2>6. hidden' \in 0 .. MaxPages /\ abandoned' \subseteq Pairs
      BY <1>0, <1>11, <2>1 DEF PageHide, ConstantsOK
    <2>7. expired' = expired /\ open' = FALSE
      BY <1>11 DEF PageHide
    <2>8. QED
      BY <1>0, <2>2, <2>3, <2>4, <2>5, <2>6, <2>7, KnownFits, TypeFrom
  <1>12. ASSUME NEW login \in BOOLEAN, PageLoad(login)
         PROVE  TypeInv'
    <2>1. Fit(Known, tab')
      <3>1. Fit(Known, Blank(parked, login))
        BY <1>0, BlankFits DEF TypeInv
      <3>2. QED
        BY <1>0, <1>12, <3>1, PlainFits DEF PageLoad, Draw
    <2>2. QED
      BY <1>0, <1>12, <2>1, UnchangedExtends, KnownFits, TypeFrom DEF PageLoad
  <1>13. CASE PageShow
    <2> DEFINE t == [frozen EXCEPT !.access = NoToken, !.refresh = parked]
    <2>1. Fit(Known, t)
      <3>1. Fit(Known, frozen) /\ parked \in Known \cup {NoToken} /\ parked \in Pairs \cup {NoToken}
        BY <1>13 DEF PageShow, TypeInv, TypeOK
      <3>2. /\ t \in Tab /\ t.access = NoToken /\ t.refresh = parked
            /\ t.request = frozen.request /\ t.exchange = frozen.exchange
            /\ SameSigning(frozen, t)
        BY <3>1 DEF Fit, Tab, SameSigning
      <3> HIDE DEF t
      <3>3. QED
        BY <3>1, <3>2 DEF Fit, SameSigning
    <2>2. tab' \in {Render(StartRestore(Emptied(t))), Render(Show(Emptied(t), SignedOut(TRUE))),
                    Render(t)}
      BY <1>13 DEF PageShow, Draw
    <2> HIDE DEF t
    <2>3. Fit(Known, tab')
      BY <1>0, <2>1, <2>2, PlainFits, StartRestoreFits, ScreensAre
    <2>4. QED
      BY <1>0, <1>13, <2>3, UnchangedExtends, KnownFits, TypeFrom DEF PageShow
  <1>14. ASSUME NEW s \in Slots, Answered(s)
         PROVE  TypeInv'
    <2>1. CASE RequestOk(s)
      <3>1. tab.request[s].token \in Known
        BY <1>0, <2>1, RequestOkIs DEF Fit
      <3>2. Fit(Known, tab')
        BY <1>0, <2>1, <3>1, RequestOkIs, OwnersAre, OkFits, PlainFits
      <3>3. QED
        BY <1>b, <2>1, <3>2, RequestOkIs
    <2>2. CASE RequestDenied(s)
      <3> DEFINE t == [tab EXCEPT !.request[s].pc = "waiting"]
      <3>1. Fit(Known, t) /\ t.exchange = tab.exchange /\ t.refresh = tab.refresh
        <4>1. \A o \in Slots : /\ t.request[o] \in Request
                               /\ t.request[o].token = tab.request[o].token
          BY <1>0 DEF Tab, Request
        <4>2. t \in Tab
          BY <1>0 DEF Tab, Request
        <4>3. /\ t.exchange = tab.exchange /\ t.signing = tab.signing /\ t.account = tab.account
              /\ t.access = tab.access /\ t.refresh = tab.refresh
          BY <1>0 DEF Tab
        <4> HIDE DEF t
        <4>4. QED
          BY <1>0, <4>1, <4>2, <4>3 DEF Fit
      <3>2. \/ tab' = Render(Reject(Clear(tab), s, TRUE))
            \/ ~Refusable(tab) /\ tab' = Render(BeginExchange(t))
        BY <2>2 DEF RequestDenied, Draw
      <3> HIDE DEF t
      <3>3. Fit(Known, tab')
        BY <1>0, <3>1, <3>2, PlainFits, RejectFits, SentFits DEF Refusable
      <3>4. QED
        BY <1>b, <2>2, <3>3 DEF RequestDenied
    <2>3. CASE RequestFails(s)
      <3>1. tab' = Render(Reject(tab, s, FALSE))
        BY <2>3 DEF RequestFails, Draw
      <3>2. QED
        BY <1>0, <1>b, <2>3, <3>1, PlainFits, RejectFits DEF RequestFails
    <2>4. QED
      BY <1>14, <2>1, <2>2, <2>3 DEF Answered
  <1>15. CASE UNCHANGED vars
    BY <1>0, <1>15, <1>b DEF vars
  <1>16. QED
    BY <1>1, <1>2, <1>3, <1>4, <1>5, <1>6, <1>7, <1>8, <1>9, <1>10, <1>11, <1>12, <1>13, <1>14, <1>15
    DEF Next, Server, Refreshing, User, Navigation

\* The first page, and a server that has issued nothing.
LEMMA TypeInit == ASSUME ConstantsOK PROVE Init => TypeInv
  <1> SUFFICES ASSUME Init PROVE TypeInv
    OBVIOUS
  <1>1. Known = {}
    BY DEF Init, Known
  <1>2. Fit({}, tab)
    BY BlankFits DEF Init
  <1>3. pair \in [Pairs -> [user : Users \cup {Nobody}, state : PairState]]
    BY DEF Init, PairState
  <1>4. QED
    <2>1. hidden \in 0 .. MaxPages
      BY DEF Init, ConstantsOK
    <2>2. tab \in Tab
      BY <1>2 DEF Fit
    <2>3. /\ expired = {} /\ open = TRUE /\ parked = NoToken /\ frozen = Nobody
          /\ abandoned = {} /\ alarms = {}
      BY DEF Init
    <2>4. QED
      BY <1>1, <1>2, <1>3, <2>1, <2>2, <2>3 DEF TypeInv, TypeOK

\* Every variable keeps its type, whatever of the rarer things happen: the attempts of an
\* exchange are bounded, and only users' data is cached.
THEOREM TypeCorrect == ASSUME ConstantsOK PROVE Spec => []TypeOK
  <1>1. TypeInv => TypeOK
    BY DEF TypeInv
  <1>2. QED
    BY <1>1, TypeInit, TypeStep, PTL DEF Spec

-----------------------------------------------------------------------------
(***************************************************************************)
(* No false alarm.  A token that has been rotated may come to be presented *)
(* again only if the tab still holds it; the tab lets go of it when its    *)
(* exchange is answered, and an exchange that ends without an answer       *)
(* abandons it.  NoFalseAlarm is not inductive: it has to be known of      *)
(* every token that may yet be presented, whether the page is open or not, *)
(* and of the page that may come back out of the page cache.  An attempt   *)
(* that takes longer to fail than the grace period would break it.         *)
(***************************************************************************)
Used(p) == pair[p].state \in {"rotated", "spent"}

UnderWay(p) == tab.exchange.pc # "none" /\ tab.exchange.token = p

Presentable(p) == p \in {tab.refresh, parked} \/ UnderWay(p)

\* Two pages are never open, and what is parked is of no open page.
OnePage ==
  /\ open => parked = NoToken
  /\ ~open => tab.refresh = NoToken /\ tab.exchange.pc = "none"

FrozenIsAbandoned ==
  (frozen # Nobody /\ frozen.exchange.pc # "none") => frozen.exchange.token \in abandoned

UsedIsAbandoned ==
  \A p \in Pairs :
    Used(p) /\ Presentable(p) => p \in abandoned \/ (UnderWay(p) /\ pair[p].state = "rotated")

AlarmInv ==
  /\ TypeInv
  /\ OnePage
  /\ FrozenIsAbandoned
  /\ UsedIsAbandoned
  /\ NoFalseAlarm

\* What a step that is not an exchange's does to the tokens a tab may present.
Keeps(t, u) == u.refresh \in {t.refresh, NoToken} /\ u.exchange = t.exchange

\* Or begins to present.
Presents(t, u) ==
  /\ u.refresh \in {t.refresh, NoToken}
  /\ \/ u.exchange = t.exchange
     \/ u.exchange.token = t.refresh /\ t.exchange.pc = "none"

\* To show, forget, send and settle requests is to present nothing new.
LEMMA PlainKeeps ==
  ASSUME NEW t \in Tab
  PROVE  /\ Keeps(t, Render(t)) /\ Keeps(t, Clear(t)) /\ Keeps(t, Leave(t)) /\ Keeps(t, Emptied(t))
         /\ \A ui \in AuthState : Keeps(t, Show(t, ui))
         /\ \A s \in Slots : Keeps(t, Done(t, s))
         /\ \A s \in Slots, retry, kept \in BOOLEAN : Keeps(t, Send(t, s, retry, kept))
         /\ Keeps(t, Signed(t))
         /\ \A restoring \in {"no", "refreshing", "me"} : Keeps(t, [t EXCEPT !.restoring = restoring])
  <1>1. Keeps(t, Render(t)) /\ Keeps(t, Clear(t)) /\ Keeps(t, Leave(t)) /\ Keeps(t, Emptied(t))
    BY RenderIs, ClearIs, LeaveIs, EmptiedIs DEF Keeps, SameTokens
  <1>2. \A ui \in AuthState : Keeps(t, Show(t, ui))
    BY ShowIs DEF Keeps, SameTokens
  <1>3. \A s \in Slots : Keeps(t, Done(t, s))
    BY DoneIs DEF Keeps, SameTokens
  <1>4. ASSUME NEW s \in Slots, NEW retry \in BOOLEAN, NEW kept \in BOOLEAN
        PROVE  Keeps(t, Send(t, s, retry, kept))
    <2> DEFINE u == Send(t, s, retry, kept)
    <2>1. /\ u \in Tab
          /\ u.request = [t.request EXCEPT ![s] = [pc |-> "sent", token |-> t.access,
                                                   retry |-> retry, kept |-> kept]]
          /\ SameTokens(t, u) /\ SameSigning(t, u) /\ u.exchange = t.exchange
      BY SendIs
    <2> HIDE DEF u
    <2>2. Keeps(t, u)
      BY <2>1 DEF Keeps, SameTokens
    <2>3. QED
      BY <2>2 DEF u
  <1>5. Keeps(t, Signed(t))
    BY SignedIs DEF Keeps, SameTokens
  <1>6. \A restoring \in {"no", "refreshing", "me"} : Keeps(t, [t EXCEPT !.restoring = restoring])
    BY RestoringIs DEF Keeps, SameTokens
  <1>7. QED
    BY <1>1, <1>2, <1>3, <1>4, <1>5, <1>6

\* A rejected promise presents nothing new,
LEMMA RejectKeeps ==
  ASSUME NEW t \in Tab, NEW s \in Slots, NEW unauthorized \in BOOLEAN
  PROVE  Reject(t, s, unauthorized) \in Tab /\ Keeps(t, Reject(t, s, unauthorized))
  <1> DEFINE u == Done(t, s)
             c == Clear(u)
  <1>1. u \in Tab /\ Keeps(t, u)
    BY DoneIs, PlainKeeps
  <1>2. Reject(t, s, unauthorized) \in
          {u, Signed(c), Show(u, SignedOut(TRUE)), Show(u, Unavailable)}
    BY DEF Reject, Done, Signed
  <1>3. c \in Tab /\ Keeps(u, c)
    <2> HIDE DEF u
    <2>1. QED
      BY <1>1, ClearIs, PlainKeeps
  <1> HIDE DEF u, c
  <1>4. Signed(c) \in Tab /\ Keeps(c, Signed(c))
    BY <1>3, SignedIs, PlainKeeps
  <1>5. \A ui \in AuthState : Show(u, ui) \in Tab /\ Keeps(u, Show(u, ui))
    BY <1>1, ShowIs, PlainKeeps
  <1>6. QED
    BY <1>1, <1>2, <1>3, <1>4, <1>5, ScreensAre DEF Keeps

\* nor does a good answer,
LEMMA OkKeeps ==
  ASSUME NEW t \in Tab, NEW s \in Slots, NEW who \in Users
  PROVE  Ok(t, s, who) \in Tab /\ Keeps(t, Ok(t, s, who))
  <1> DEFINE d == Done(t, s)
             e == Emptied(Signed(d))
             f == [d EXCEPT !.cache = @ \cup {who}]
  <1>1. d \in Tab /\ Keeps(t, d)
    BY DoneIs, PlainKeeps
  <1>2. Ok(t, s, who) \in {d, f, Show(e, SignedIn(who)), Show(d, SignedIn(who))}
    BY DEF Ok
  <1> HIDE DEF d
  <1>3. Signed(d) \in Tab /\ Keeps(d, Signed(d))
    BY <1>1, SignedIs, PlainKeeps
  <1>4. e \in Tab /\ Keeps(Signed(d), e)
    BY <1>3, EmptiedIs, PlainKeeps
  <1>5. f \in Tab /\ Keeps(d, f)
    BY <1>1, CacheIs DEF Keeps, SameTokens
  <1>6. Show(d, SignedIn(who)) \in Tab /\ Keeps(d, Show(d, SignedIn(who)))
    BY <1>1, ShowIs, PlainKeeps, ScreensAre
  <1> HIDE DEF e, f
  <1>7. Show(e, SignedIn(who)) \in Tab /\ Keeps(e, Show(e, SignedIn(who)))
    BY <1>4, ShowIs, PlainKeeps, ScreensAre
  <1>8. QED
    BY <1>1, <1>2, <1>3, <1>4, <1>5, <1>6, <1>7 DEF Keeps

\* nor the restoring effect, once refreshSession has answered.
LEMMA RestoreRefreshedKeeps ==
  ASSUME NEW t \in Tab, NEW outcome \in Outcomes
  PROVE  RestoreRefreshed(t, outcome) \in Tab /\ Keeps(t, RestoreRefreshed(t, outcome))
  <1> DEFINE m == [t EXCEPT !.restoring = "me"]
  <1>1. m \in Tab /\ Keeps(t, m)
    BY RestoringIs, PlainKeeps
  <1>2. RestoreRefreshed(t, outcome) \in
          {t, Send(m, Me, FALSE, FALSE), Show(t, SignedOut(TRUE)), Show(t, Unavailable)}
    BY DEF RestoreRefreshed, Outcomes
  <1> HIDE DEF m
  <1>3. Send(m, Me, FALSE, FALSE) \in Tab /\ Keeps(m, Send(m, Me, FALSE, FALSE))
    BY <1>1, SendIs, PlainKeeps DEF Slots
  <1>4. \A ui \in AuthState : Show(t, ui) \in Tab /\ Keeps(t, Show(t, ui))
    BY ShowIs, PlainKeeps
  <1>5. QED
    BY <1>1, <1>2, <1>3, <1>4, ScreensAre DEF Keeps

\* The effect begins by presenting what the tab holds, if nothing is under way.
LEMMA StartRestorePresents ==
  ASSUME NEW t \in Tab, ConstantsOK
  PROVE  StartRestore(t) \in Tab /\ Presents(t, StartRestore(t))
  <1> DEFINE w == Show(t, Loading)
             u == [w EXCEPT !.restoring = "refreshing"]
  <1>1. w \in Tab /\ w.refresh = t.refresh /\ w.exchange = t.exchange
    BY ShowIs, ScreensAre DEF SameTokens
  <1>2. StartRestore(t) \in {t, RestoreRefreshed(u, "refused"), BeginExchange(u)}
    BY DEF StartRestore
  <1>3. u \in Tab /\ u.refresh = w.refresh /\ u.exchange = w.exchange
    <2> HIDE DEF w
    <2>1. QED
      BY <1>1, RestoringIs DEF SameTokens
  <1> HIDE DEF w, u
  <1>4. /\ RestoreRefreshed(u, "refused") \in Tab
        /\ Keeps(u, RestoreRefreshed(u, "refused"))
    BY <1>3, RestoreRefreshedKeeps DEF Outcomes
  <1>5. BeginExchange(u) \in Tab /\ Presents(u, BeginExchange(u))
    BY <1>3, BeginExchangeIs DEF Presents, SameTokens
  <1>6. QED
    BY <1>1, <1>2, <1>3, <1>4, <1>5 DEF Keeps, Presents

\* When an exchange has settled there is none under way, and the tab holds what it held.
LEMMA SettleEnds ==
  ASSUME NEW t \in Tab, NEW outcome \in Outcomes, ConstantsOK
  PROVE  LET u == Settle(t, outcome)
         IN  u \in Tab /\ u.exchange = NoExchange /\ u.refresh \in {t.refresh, NoToken}
  <1> DEFINE u == Settled(t, outcome)
             v == RestoreRefreshed(u, outcome)
             w == Reject(v, Me, TRUE)
  <1>1. u \in Tab /\ u.exchange = NoExchange /\ u.refresh = t.refresh
    BY SettledIs DEF SameTokens
  <1>2. v \in Tab /\ Keeps(u, v)
    <2> HIDE DEF u
    <2>1. QED
      BY <1>1, RestoreRefreshedKeeps
  <1>3. w \in Tab /\ Keeps(v, w)
    <2> HIDE DEF v
    <2>1. QED
      BY <1>2, RejectKeeps DEF Slots
  <1>4. Leave(v) \in Tab /\ Keeps(v, Leave(v)) /\ Leave(w) \in Tab /\ Keeps(w, Leave(w))
    <2> HIDE DEF v, w
    <2>1. QED
      BY <1>2, <1>3, LeaveIs, PlainKeeps
  <1>5. Settle(t, outcome) \in {v, w, Leave(v), Leave(w)}
    BY DEF Settle, Settled, Tab
  <1> HIDE DEF u, v, w
  <1>6. QED
    BY <1>1, <1>2, <1>3, <1>4, <1>5 DEF Keeps

\* What the server makes of a token it is presented: no other comes to be used, none is spent
\* by it, and an alarm is raised only at one that was spent before.
Serves(p) ==
  /\ \A q \in Pairs \ {p} : pair'[q].state \in {"rotated", "spent"} => pair'[q].state = pair[q].state
  /\ \A q \in Pairs : pair'[q].state = "spent" => pair[q].state = "spent"
  /\ alarms' = alarms \/ (alarms' = alarms \cup {p} /\ pair[p].state = "spent")

\* The end of every session is a case of it.
LEMMA SpentServes ==
  ASSUME TypeInv, NEW p \in Pairs, pair[p].state = "spent",
         pair' = EndEverySession(Owner(p)), alarms' = alarms \cup {p}
  PROVE  Serves(p)
  <1>1. \A q \in Pairs : pair'[q].state \in {pair[q].state, "ended"}
    BY SessionsEndedIs
  <1>2. QED
    BY <1>1 DEF Serves

\* And so is a refresh, whose answer is a live pair.
LEMMA ServedServes ==
  ASSUME TypeInv, NEW p \in Pairs, NEW answer \in Fresh \cup {NoToken}, RefreshServed(p, answer)
  PROVE  Serves(p) /\ (answer # NoToken => pair'[answer].state = "live")
  <1>1. CASE /\ pair[p].state = "live"
             /\ answer \in Fresh
             /\ pair' = [Issued(answer, Owner(p)) EXCEPT ![p].state = "rotated"]
             /\ UNCHANGED alarms
    <2>1. p \in Known /\ Owner(p) \in Users
      BY <1>1, OwnersAre DEF Known
    <2> DEFINE f == Issued(answer, Owner(p))
    <2>2. /\ answer \in Pairs \ Known
          /\ f \in [Pairs -> [user : Users \cup {Nobody}, state : PairState]]
          /\ f[answer].state = "live"
          /\ \A q \in Pairs \ {answer} : f[q] = pair[q]
      BY <1>1, <2>1, IssuedIs
    <2> HIDE DEF f
    <2>3. pair' = [f EXCEPT ![p].state = "rotated"] /\ UNCHANGED alarms
      BY <1>1 DEF f
    <2>4. pair'[p].state = "rotated" /\ \A q \in Pairs \ {p} : pair'[q] = f[q]
      BY <2>2, <2>3 DEF PairState
    <2>5. QED
      BY <2>1, <2>2, <2>3, <2>4 DEF Serves
  <1>2. CASE answer = NoToken /\ UNCHANGED <<pair, alarms>>
    BY <1>2 DEF Serves
  <1>3. CASE /\ pair[p].state = "spent" /\ answer = NoToken
             /\ pair' = EndEverySession(Owner(p)) /\ alarms' = alarms \cup {p}
    BY <1>3, SpentServes
  <1>4. QED
    BY <1>1, <1>2, <1>3 DEF RefreshServed

\* And a refresh whose answer is lost.
LEMMA LostServes ==
  ASSUME TypeInv, NEW p \in Pairs, RefreshLost(p)
  PROVE  Serves(p)
  <1>1. CASE UNCHANGED <<pair, alarms>>
    BY <1>1 DEF Serves
  <1>2. CASE \E answer \in Fresh \cup {NoToken} : RefreshServed(p, answer)
    BY <1>2, ServedServes
  <1>3. QED
    BY <1>1, <1>2 DEF RefreshLost

\* A logout uses no token at all.
LEMMA LogoutServes ==
  ASSUME TypeInv, NEW p \in Pairs \cup {NoToken}, LogoutServed(p)
  PROVE  /\ \A q \in Pairs : pair'[q].state \in {"rotated", "spent"} => pair'[q].state = pair[q].state
         /\ alarms' = alarms \/ (p \in Pairs /\ alarms' = alarms \cup {p} /\ pair[p].state = "spent")
  <1>1. CASE UNCHANGED <<pair, alarms>>
    BY <1>1
  <1>2. CASE /\ p # NoToken /\ pair[p].state = "live"
             /\ pair' = [pair EXCEPT ![p].state = "ended"]
             /\ UNCHANGED alarms
    BY <1>2 DEF TypeInv, TypeOK, PairState
  <1>3. CASE /\ p # NoToken /\ pair[p].state = "spent"
             /\ pair' = EndEverySession(Owner(p))
             /\ alarms' = alarms \cup {p}
    <2>1. \A q \in Pairs : pair'[q].state \in {pair[q].state, "ended"}
      BY <1>3, SessionsEndedIs
    <2>2. QED
      BY <1>3, <2>1
  <1>4. QED
    BY <1>1, <1>2, <1>3 DEF LogoutServed

\* A page just loaded presents nothing but what was parked for it.
LEMMA BlankPresents ==
  ASSUME NEW p \in Pairs \cup {NoToken}, NEW login \in BOOLEAN, ConstantsOK
  PROVE  LET b == Blank(p, login)
         IN  /\ b \in Tab /\ b.refresh \in {p, NoToken}
             /\ b.exchange.pc # "none" => b.exchange.token = p
  <1> DEFINE t == [ access |-> NoToken, refresh |-> p, ui |-> SignedOut(TRUE), atLogin |-> login,
                    from |-> FALSE, left |-> FALSE,
                    cache |-> {}, exchange |-> NoExchange, request |-> [s \in Slots |-> Idle],
                    restoring |-> "no", signing |-> "no", account |-> Nobody, leaving |-> FALSE ]
  <1>1. SignedOut(TRUE) \in AuthState /\ NoExchange \in Exchange /\ Idle \in Request
    <2>1. SignedOut(TRUE) \in AuthState
      BY ScreensAre
    <2>2. NoExchange \in Exchange
      BY DEF NoExchange, Exchange, ConstantsOK
    <2>3. Idle \in Request
      BY DEF Idle, Request
    <2>4. QED
      BY <2>1, <2>2, <2>3
  <1>2. t \in Tab /\ t.refresh = p /\ t.exchange = NoExchange
    BY <1>1 DEF Tab
  <1>3. StartRestore(t) \in Tab /\ Presents(t, StartRestore(t))
    <2> HIDE DEF t
    <2>1. QED
      BY <1>2, StartRestorePresents
  <1>4. Blank(p, login) \in {t, StartRestore(t)}
    BY DEF Blank
  <1> HIDE DEF t
  <1>5. QED
    BY <1>2, <1>3, <1>4 DEF Presents, NoExchange

\* A step of the open page that leaves the server and the other pages alone.
LEMMA AloneKeepsAlarms ==
  ASSUME AlarmInv, TypeInv', open, NEW t, t.refresh = tab'.refresh, t.exchange = tab'.exchange,
         Presents(tab, t), UNCHANGED <<pair, alarms, open, parked, frozen, abandoned>>
  PROVE  AlarmInv'
  <1>1. OnePage' /\ FrozenIsAbandoned' /\ NoFalseAlarm'
    BY DEF AlarmInv, OnePage, FrozenIsAbandoned, NoFalseAlarm
  <1>2. UsedIsAbandoned'
    BY DEF AlarmInv, OnePage, UsedIsAbandoned, Used, Presentable, UnderWay, Presents, Pairs, NoToken
  <1>3. QED
    BY <1>1, <1>2 DEF AlarmInv

\* A token that is used stays one that the tab has let go of, is presenting, or has abandoned.
LEMMA AlarmStep ==
  ASSUME ConstantsOK, "slow" \notin Mishaps, AlarmInv, [Next]_vars
  PROVE  AlarmInv'
  <1>0. /\ TypeInv /\ TypeInv'
        /\ Fit(Known, tab) /\ tab \in Tab /\ Known \in SUBSET Pairs
        /\ frozen # Nobody => frozen \in Tab
        /\ parked \in Pairs \cup {NoToken}
        /\ OnePage /\ FrozenIsAbandoned /\ UsedIsAbandoned /\ NoFalseAlarm
    BY TypeStep DEF AlarmInv, TypeInv, TypeOK, Known, Fit
  <1>a. ASSUME open, Presents(tab, tab'), UNCHANGED <<pair, alarms, open, parked, frozen, abandoned>>
        PROVE  AlarmInv'
    BY <1>0, <1>a, AloneKeepsAlarms
  <1>b. ASSUME NEW t \in Tab, open, tab' = Render(t), Presents(tab, t),
               UNCHANGED <<pair, alarms, open, parked, frozen, abandoned>>
        PROVE  AlarmInv'
    BY <1>a, <1>b, PlainKeeps DEF Presents, Keeps
  <1>1. ASSUME NEW p \in Pairs, SessionEnds(p) \/ GraceEnds(p) \/ Expire(p)
        PROVE  AlarmInv'
    <2>1. UNCHANGED <<tab, open, parked, frozen, abandoned, alarms>>
      BY <1>1 DEF SessionEnds, GraceEnds, Expire
    <2>2. OnePage' /\ FrozenIsAbandoned' /\ NoFalseAlarm'
      BY <1>0, <2>1 DEF OnePage, FrozenIsAbandoned, NoFalseAlarm
    <2>3. UsedIsAbandoned'
      <3>1. CASE SessionEnds(p)
        BY <1>0, <2>1, <3>1 DEF SessionEnds, UsedIsAbandoned, Used, Presentable, UnderWay,
           TypeInv, TypeOK
      <3>2. CASE GraceEnds(p)
        <4>1. ~UnderWay(p) /\ pair[p].state = "rotated"
          BY <1>0, <3>2 DEF GraceEnds, UnderWay, OnePage
        <4>2. /\ pair'[p].state = "spent"
              /\ \A q \in Pairs \ {p} : pair'[q] = pair[q]
          BY <1>0, <3>2 DEF GraceEnds, TypeInv, TypeOK
        <4>3. QED
          BY <1>0, <2>1, <4>1, <4>2 DEF UsedIsAbandoned, Used, Presentable, UnderWay
      <3>3. CASE Expire(p)
        BY <1>0, <2>1, <3>3 DEF Expire, UsedIsAbandoned, Used, Presentable, UnderWay
      <3>4. QED
        BY <1>1, <3>1, <3>2, <3>3
    <2>4. QED
      BY <1>0, <2>2, <2>3 DEF AlarmInv
  <1>2. CASE RefreshAnswered
    <2> DEFINE r == tab.exchange.token
    <2>1. /\ r \in Pairs /\ UnderWay(r) /\ open
          /\ UNCHANGED <<open, parked, frozen, abandoned>>
      BY <1>0, <1>2 DEF RefreshAnswered, Fit, UnderWay
    <2>2. PICK answer \in Fresh \cup {NoToken} :
            /\ RefreshServed(r, answer)
            /\ tab' = Render(IF answer # NoToken THEN Settle(Store(tab, answer), "renewed")
                                                 ELSE Settle(Clear(tab), "refused"))
      BY <1>2 DEF RefreshAnswered, Draw
    <2>3. Serves(r) /\ (answer # NoToken => pair'[answer].state = "live") /\ answer \in Pairs \cup {NoToken}
      BY <1>0, <2>1, <2>2, ServedServes DEF Fresh
    <2>4. tab'.refresh \in {answer, NoToken} /\ tab'.exchange = NoExchange
      <3>1. CASE answer # NoToken
        <4> DEFINE t == Settle(Store(tab, answer), "renewed")
        <4>1. Store(tab, answer) \in Tab /\ Store(tab, answer).refresh = answer
          BY <1>0, <2>3, <3>1, StoreIs
        <4>2. t \in Tab /\ t.exchange = NoExchange /\ t.refresh \in {answer, NoToken}
          BY <4>1, SettleEnds DEF Outcomes
        <4>3. tab' = Render(t)
          BY <2>2, <3>1
        <4> HIDE DEF t
        <4>4. QED
          BY <4>2, <4>3, PlainKeeps DEF Keeps
      <3>2. CASE answer = NoToken
        <4> DEFINE t == Settle(Clear(tab), "refused")
        <4>1. Clear(tab) \in Tab /\ Clear(tab).refresh = NoToken
          BY <1>0, ClearIs
        <4>2. t \in Tab /\ t.exchange = NoExchange /\ t.refresh = NoToken
          BY <4>1, SettleEnds DEF Outcomes
        <4>3. tab' = Render(t)
          BY <2>2, <3>2
        <4> HIDE DEF t
        <4>4. QED
          BY <4>2, <4>3, PlainKeeps DEF Keeps
      <3>3. QED
        BY <3>1, <3>2
    <2>5. NoFalseAlarm'
      BY <1>0, <2>1, <2>3 DEF Serves, NoFalseAlarm, UsedIsAbandoned, Used, Presentable
    <2>6. UsedIsAbandoned'
      BY <1>0, <2>1, <2>3, <2>4 DEF UsedIsAbandoned, Used, Presentable, UnderWay, OnePage, NoExchange,
         Pairs, NoToken
    <2>7. QED
      BY <1>0, <2>1, <2>5, <2>6 DEF AlarmInv, OnePage, FrozenIsAbandoned
  <1>3. CASE RefreshUnanswered
    <2> DEFINE r == tab.exchange.token
    <2>1. /\ r \in Pairs /\ UnderWay(r) /\ open
          /\ UNCHANGED <<open, parked, frozen>>
      BY <1>0, <1>3 DEF RefreshUnanswered, Fit, UnderWay
    <2>2. Serves(r)
      BY <1>0, <1>3, <2>1, LostServes DEF RefreshUnanswered
    <2>3. r \in alarms' \ alarms => r \in abandoned
      BY <1>0, <2>1, <2>2 DEF Serves, UsedIsAbandoned, Used, Presentable
    <2>4. CASE tab.exchange.attempt < Retries
      <3>1. tab' = [tab EXCEPT !.exchange.pc = "waiting"] /\ UNCHANGED abandoned
        BY <1>3, <2>4 DEF RefreshUnanswered
      <3>2. /\ tab'.refresh = tab.refresh /\ tab'.exchange.token = r /\ tab'.exchange.pc = "waiting"
        BY <1>0, <3>1 DEF Tab, Exchange
      <3>3. NoFalseAlarm'
        BY <1>0, <2>1, <2>2, <2>3, <3>1 DEF Serves, NoFalseAlarm
      <3>4. UsedIsAbandoned'
        BY <1>0, <2>1, <2>2, <3>1, <3>2 DEF Serves, UsedIsAbandoned, Used, Presentable, UnderWay
      <3>5. QED
        BY <1>0, <2>1, <3>1, <3>3, <3>4 DEF AlarmInv, OnePage, FrozenIsAbandoned
    <2>5. CASE ~(tab.exchange.attempt < Retries)
      <3> DEFINE t == Settle(tab, "unavailable")
      <3>1. tab' = Render(t) /\ abandoned' = abandoned \cup {r}
        BY <1>3, <2>5 DEF RefreshUnanswered, Draw
      <3>2. t \in Tab /\ t.exchange = NoExchange /\ t.refresh \in {tab.refresh, NoToken}
        BY <1>0, SettleEnds DEF Outcomes
      <3> HIDE DEF t
      <3>3. tab'.exchange = NoExchange /\ tab'.refresh \in {tab.refresh, NoToken}
        BY <3>1, <3>2, PlainKeeps DEF Keeps
      <3>4. NoFalseAlarm'
        BY <1>0, <2>1, <2>2, <3>1 DEF Serves, NoFalseAlarm
      <3>5. UsedIsAbandoned'
        BY <1>0, <2>1, <2>2, <3>1, <3>3 DEF Serves, UsedIsAbandoned, Used, Presentable, UnderWay,
           NoExchange, Pairs, NoToken
      <3>6. QED
        BY <1>0, <2>1, <3>1, <3>4, <3>5 DEF AlarmInv, OnePage, FrozenIsAbandoned
    <2>6. QED
      BY <2>4, <2>5
  <1>4. CASE RefreshAgain
    <2>1. tab' = [tab EXCEPT !.exchange.pc = "sent", !.exchange.attempt = @ + 1]
          /\ tab.exchange.pc = "waiting"
      BY <1>4 DEF RefreshAgain
    <2>2. /\ tab'.refresh = tab.refresh /\ tab'.exchange.token = tab.exchange.token
          /\ tab'.exchange.pc = "sent"
      BY <1>0, <2>1 DEF Tab, Exchange
    <2>3. UNCHANGED <<pair, alarms, open, parked, frozen, abandoned>> /\ open
      BY <1>4 DEF RefreshAgain
    <2>4. UsedIsAbandoned'
      BY <1>0, <2>1, <2>2, <2>3 DEF UsedIsAbandoned, Used, Presentable, UnderWay
    <2>5. QED
      BY <1>0, <2>3, <2>4 DEF AlarmInv, OnePage, FrozenIsAbandoned, NoFalseAlarm
  <1>5. CASE LoggedIn
    <2>1. PICK p \in Fresh : /\ pair' = Issued(p, tab.account)
                             /\ tab' = Send([Store(tab, p) EXCEPT !.signing = "me"], Me, FALSE, FALSE)
      BY <1>5 DEF LoggedIn
    <2>2. tab.account \in Users /\ p \in Pairs
      BY <1>0, <1>5 DEF LoggedIn, Fit, Fresh
    <2>3. pair'[p].state = "live" /\ \A q \in Pairs \ {p} : pair'[q] = pair[q]
      BY <1>0, <2>1, <2>2, IssuedIs
    <2> DEFINE t == Store(tab, p)
               u == [t EXCEPT !.signing = "me"]
    <2>4. t \in Tab /\ t.refresh = p /\ t.exchange = tab.exchange
      BY <1>0, <2>2, StoreIs
    <2>5. u \in Tab /\ u.refresh = p /\ u.exchange = tab.exchange
      <3> HIDE DEF t
      <3>1. QED
        BY <2>4, SigningIs DEF SameTokens
    <2> HIDE DEF t, u
    <2>6. tab' = Send(u, Me, FALSE, FALSE)
      BY <2>1 DEF t, u
    <2>7. tab'.refresh \in {p, NoToken} /\ tab'.exchange = tab.exchange
      BY <2>5, <2>6, SendIs DEF Slots, SameTokens
    <2>8. UNCHANGED <<alarms, open, parked, frozen, abandoned>> /\ open
      BY <1>5 DEF LoggedIn
    <2>9. UsedIsAbandoned'
      BY <1>0, <2>2, <2>3, <2>7, <2>8 DEF UsedIsAbandoned, Used, Presentable, UnderWay, Pairs, NoToken
    <2>10. QED
      BY <1>0, <2>7, <2>8, <2>9 DEF AlarmInv, OnePage, FrozenIsAbandoned, NoFalseAlarm
  <1>6. CASE LoginFails
    <2>1. tab' = Signed(tab)
      BY <1>6 DEF LoginFails, Signed
    <2>2. QED
      BY <1>0, <1>6, <1>a, <2>1, PlainKeeps DEF LoginFails, Presents, Keeps
  <1>7. ASSUME NEW s \in Reads, Read(s)
        PROVE  AlarmInv'
    <2>1. tab' = Send(tab, s, FALSE, TRUE) /\ s \in Slots
      BY <1>7 DEF Read, Slots
    <2>2. Keeps(tab, tab')
      BY <1>0, <2>1, PlainKeeps
    <2>3. QED
      BY <1>7, <1>a, <2>2 DEF Read, Presents, Keeps
  <1>8. CASE Retry
    <2>1. tab' = Render(StartRestore(tab))
      BY <1>8 DEF Retry, Draw
    <2>2. StartRestore(tab) \in Tab /\ Presents(tab, StartRestore(tab))
      BY <1>0, StartRestorePresents
    <2>3. QED
      BY <1>8, <1>b, <2>1, <2>2 DEF Retry
  <1>9. CASE SignOut
    <2>1. CASE tab.exchange.pc = "none"
      <3>1. /\ LogoutServed(tab.refresh) /\ tab' = Render(Leave(tab))
            /\ UNCHANGED <<open, parked, frozen, abandoned>> /\ open
        BY <1>9, <2>1 DEF SignOut, Draw
      <3>2. tab.refresh \in Pairs \cup {NoToken}
        BY <1>0 DEF Tab
      <3>3. /\ \A q \in Pairs : pair'[q].state \in {"rotated", "spent"} => pair'[q].state = pair[q].state
            /\ alarms' = alarms \/ (tab.refresh \in Pairs /\ alarms' = alarms \cup {tab.refresh}
                                     /\ pair[tab.refresh].state = "spent")
        BY <1>0, <3>1, <3>2, LogoutServes
      <3>4. tab'.refresh \in {tab.refresh, NoToken} /\ tab'.exchange = tab.exchange
        BY <1>0, <3>1, LeaveIs, PlainKeeps DEF Keeps
      <3>5. NoFalseAlarm'
        BY <1>0, <2>1, <3>1, <3>3 DEF NoFalseAlarm, UsedIsAbandoned, Used, Presentable, UnderWay
      <3>6. UsedIsAbandoned'
        BY <1>0, <2>1, <3>1, <3>3, <3>4 DEF UsedIsAbandoned, Used, Presentable, UnderWay, Pairs, NoToken
      <3>7. QED
        BY <1>0, <3>1, <3>5, <3>6 DEF AlarmInv, OnePage, FrozenIsAbandoned
    <2>2. CASE tab.exchange.pc # "none"
      <3>1. tab' = [tab EXCEPT !.leaving = TRUE] /\ UNCHANGED <<pair, alarms>>
        BY <1>9, <2>2 DEF SignOut
      <3>2. tab'.refresh = tab.refresh /\ tab'.exchange = tab.exchange
        BY <1>0, <3>1 DEF Tab
      <3>3. QED
        BY <1>9, <1>a, <3>1, <3>2 DEF SignOut, Presents
    <2>3. QED
      BY <2>1, <2>2
  <1>10. ASSUME NEW u \in Users, SignIn(u)
         PROVE  AlarmInv'
    <2>1. tab' = [tab EXCEPT !.signing = "login", !.account = u]
      BY <1>10 DEF SignIn
    <2>2. tab'.refresh = tab.refresh /\ tab'.exchange = tab.exchange
      BY <1>0, <2>1 DEF Tab
    <2>3. QED
      BY <1>10, <1>a, <2>2 DEF SignIn, Presents
  <1>11. ASSUME NEW kept \in BOOLEAN, PageHide(kept)
         PROVE  AlarmInv'
    <2> DEFINE r == tab.exchange.token
    <2>1. /\ open /\ open' = FALSE
          /\ parked' = IF tab.refresh # NoToken THEN tab.refresh ELSE parked
          /\ frozen' \in {tab, frozen}
          /\ tab' = Blank(NoToken, TRUE)
          /\ abandoned' = IF tab.exchange.pc # "none" THEN abandoned \cup {r} ELSE abandoned
          /\ IF tab.exchange.pc = "sent" THEN RefreshLost(r) ELSE UNCHANGED <<pair, alarms>>
      BY <1>11 DEF PageHide
    <2>2. tab'.refresh = NoToken /\ tab'.exchange = NoExchange
      BY <2>1 DEF Blank
    <2>3. \/ tab.exchange.pc = "sent" /\ r \in Pairs /\ UnderWay(r) /\ Serves(r)
          \/ UNCHANGED <<pair, alarms>>
      BY <1>0, <2>1, LostServes DEF Fit, UnderWay
    <2>4. OnePage'
      <3>1. open' = FALSE /\ NoExchange.pc = "none"
        BY <2>1 DEF NoExchange
      <3>2. QED
        BY <2>2, <3>1 DEF OnePage
    <2>5. FrozenIsAbandoned'
      BY <1>0, <2>1 DEF FrozenIsAbandoned
    <2>6. NoFalseAlarm'
      BY <1>0, <2>1, <2>3 DEF NoFalseAlarm, Serves
    <2>7. UsedIsAbandoned'
      <3> SUFFICES ASSUME NEW p \in Pairs, Used(p)', Presentable(p)'
                   PROVE  p \in abandoned'
        BY DEF UsedIsAbandoned
      <3>1. p = tab.refresh
        <4>1. p # NoToken
          BY DEF Pairs, NoToken
        <4>2. ~UnderWay(p)' /\ tab'.refresh # p
          BY <2>2, <4>1 DEF UnderWay, NoExchange
        <4>3. parked' \in {tab.refresh, NoToken}
          BY <1>0, <2>1 DEF OnePage
        <4>4. QED
          BY <4>1, <4>2, <4>3 DEF Presentable
      <3>2. Used(p) \/ UnderWay(p)
        BY <2>3 DEF Used, Serves, UnderWay
      <3>3. QED
        BY <1>0, <2>1, <3>1, <3>2 DEF UsedIsAbandoned, Presentable, UnderWay
    <2>8. QED
      BY <1>0, <2>4, <2>5, <2>6, <2>7 DEF AlarmInv
  <1>12. ASSUME NEW login \in BOOLEAN, PageLoad(login)
         PROVE  AlarmInv'
    <2>1. /\ ~open /\ open' = TRUE /\ parked' = NoToken /\ tab' = Render(Blank(parked, login))
          /\ UNCHANGED <<pair, frozen, abandoned, alarms>>
      BY <1>12 DEF PageLoad, Draw
    <2> DEFINE b == Blank(parked, login)
    <2>2. b \in Tab /\ b.refresh \in {parked, NoToken}
          /\ (b.exchange.pc # "none" => b.exchange.token = parked)
      BY <1>0, BlankPresents
    <2> HIDE DEF b
    <2>3. /\ tab'.refresh \in {parked, NoToken}
          /\ tab'.exchange.pc # "none" => tab'.exchange.token = parked
      BY <2>1, <2>2, PlainKeeps DEF Keeps, b
    <2>4. UsedIsAbandoned'
      BY <1>0, <2>1, <2>3 DEF UsedIsAbandoned, Used, Presentable, UnderWay, OnePage, Pairs, NoToken
    <2>5. QED
      BY <1>0, <2>1, <2>4 DEF AlarmInv, OnePage, FrozenIsAbandoned, NoFalseAlarm
  <1>13. CASE PageShow
    <2> DEFINE t == [frozen EXCEPT !.access = NoToken, !.refresh = parked]
    <2>1. /\ ~open /\ frozen # Nobody /\ open' = TRUE /\ parked' = NoToken /\ frozen' = Nobody
          /\ UNCHANGED <<pair, abandoned, alarms>>
          /\ tab' \in {Render(StartRestore(Emptied(t))), Render(Show(Emptied(t), SignedOut(TRUE))),
                        Render(t)}
      BY <1>13 DEF PageShow, Draw
    <2>2. t \in Tab /\ t.refresh = parked /\ t.exchange = frozen.exchange
      BY <1>0, <2>1 DEF Tab
    <2> HIDE DEF t
    <2>3. Emptied(t) \in Tab /\ Keeps(t, Emptied(t))
      BY <2>2, EmptiedIs, PlainKeeps
    <2>4. /\ StartRestore(Emptied(t)) \in Tab /\ Presents(Emptied(t), StartRestore(Emptied(t)))
          /\ Show(Emptied(t), SignedOut(TRUE)) \in Tab
          /\ Keeps(Emptied(t), Show(Emptied(t), SignedOut(TRUE)))
      BY <2>3, StartRestorePresents, ShowIs, PlainKeeps, ScreensAre
    <2>5. /\ tab'.refresh \in {parked, NoToken}
          /\ \/ tab'.exchange = frozen.exchange
             \/ tab'.exchange.token \in {parked, NoToken}
      <3> DEFINE e == Emptied(t)
                 x == StartRestore(e)
                 y == Show(e, SignedOut(TRUE))
      <3>1. e.refresh \in {parked, NoToken} /\ e.exchange = frozen.exchange
        BY <2>2, <2>3 DEF Keeps
      <3>2. /\ x \in Tab /\ x.refresh \in {parked, NoToken}
            /\ x.exchange = frozen.exchange \/ x.exchange.token \in {parked, NoToken}
        BY <2>4, <3>1 DEF Presents
      <3>3. y \in Tab /\ y.refresh \in {parked, NoToken} /\ y.exchange = frozen.exchange
        BY <2>4, <3>1 DEF Keeps
      <3>4. tab' \in {Render(x), Render(y), Render(t)}
        BY <2>1
      <3> HIDE DEF x, y
      <3>5. QED
        BY <2>2, <3>2, <3>3, <3>4, PlainKeeps DEF Keeps
    <2>6. UsedIsAbandoned'
      BY <1>0, <2>1, <2>5 DEF UsedIsAbandoned, FrozenIsAbandoned, Used, Presentable, UnderWay, OnePage,
         Pairs, NoToken
    <2>7. QED
      BY <1>0, <2>1, <2>6 DEF AlarmInv, OnePage, FrozenIsAbandoned, NoFalseAlarm
  <1>14. ASSUME NEW s \in Slots, Answered(s)
         PROVE  AlarmInv'
    <2>1. CASE RequestOk(s)
      <3> DEFINE who == Owner(tab.request[s].token)
      <3>1. who \in Users
        BY <1>0, <2>1, RequestOkIs, OwnersAre DEF Fit
      <3>2. Ok(tab, s, who) \in Tab /\ Keeps(tab, Ok(tab, s, who))
        BY <1>0, <3>1, OkKeeps
      <3>3. QED
        BY <1>b, <2>1, <3>2, RequestOkIs DEF Presents, Keeps
    <2>2. CASE RequestDenied(s)
      <3> DEFINE t == [tab EXCEPT !.request[s].pc = "waiting"]
      <3>1. t \in Tab /\ t.exchange = tab.exchange /\ t.refresh = tab.refresh
        BY <1>0 DEF Tab, Request
      <3>2. \/ tab' = Render(Reject(Clear(tab), s, TRUE))
            \/ tab' = Render(BeginExchange(t))
        BY <2>2 DEF RequestDenied, Draw
      <3>3. open /\ UNCHANGED <<pair, alarms, open, parked, frozen, abandoned>>
        BY <2>2 DEF RequestDenied
      <3> HIDE DEF t
      <3>4. /\ Reject(Clear(tab), s, TRUE) \in Tab
            /\ Presents(tab, Reject(Clear(tab), s, TRUE))
        <4> DEFINE c == Clear(tab)
        <4>1. c \in Tab /\ Keeps(tab, c)
          BY <1>0, ClearIs, PlainKeeps
        <4> HIDE DEF c
        <4>2. Reject(c, s, TRUE) \in Tab /\ Keeps(c, Reject(c, s, TRUE))
          BY <4>1, RejectKeeps
        <4>3. QED
          BY <4>1, <4>2 DEF Keeps, Presents, c
      <3>5. BeginExchange(t) \in Tab /\ Presents(tab, BeginExchange(t))
        BY <3>1, BeginExchangeIs DEF Presents, SameTokens
      <3>6. QED
        BY <1>b, <3>2, <3>3, <3>4, <3>5
    <2>3. CASE RequestFails(s)
      <3>1. tab' = Render(Reject(tab, s, FALSE))
        BY <2>3 DEF RequestFails, Draw
      <3>2. Reject(tab, s, FALSE) \in Tab /\ Presents(tab, Reject(tab, s, FALSE))
        BY <1>0, RejectKeeps DEF Keeps, Presents
      <3>3. QED
        BY <1>b, <2>3, <3>1, <3>2 DEF RequestFails
    <2>4. QED
      BY <1>14, <2>1, <2>2, <2>3 DEF Answered
  <1>15. CASE UNCHANGED vars
    BY <1>0, <1>15 DEF vars, AlarmInv, OnePage, FrozenIsAbandoned, UsedIsAbandoned, NoFalseAlarm,
       Used, Presentable, UnderWay
  <1>16. QED
    BY <1>1, <1>2, <1>3, <1>4, <1>5, <1>6, <1>7, <1>8, <1>9, <1>10, <1>11, <1>12, <1>13, <1>14, <1>15
    DEF Next, Server, Refreshing, User, Navigation

\* The first page holds no token.
LEMMA AlarmInit == ASSUME ConstantsOK PROVE Init => AlarmInv
  <1> SUFFICES ASSUME Init PROVE AlarmInv
    OBVIOUS
  <1>1. TypeInv
    BY TypeInit
  <1>2. \A p \in Pairs : ~Used(p)
    BY DEF Init, Used
  <1>3. QED
    BY <1>1, <1>2 DEF Init, AlarmInv, OnePage, FrozenIsAbandoned, UsedIsAbandoned, NoFalseAlarm

\* The server takes none of the tab's tokens for stolen but those whose exchange the tab gave up
\* on or was torn from (client.ts, refreshSession), as long as an attempt to refresh fails within
\* the grace period; what the machine's sleep, the page cache's timers, an early sign-in or a
\* late answer do makes no difference to it.
THEOREM NoAlarm ==
  ASSUME ConstantsOK, "slow" \notin Mishaps
  PROVE  Spec => []NoFalseAlarm
  <1>1. AlarmInv => NoFalseAlarm
    BY DEF AlarmInv
  <1>2. QED
    BY <1>1, AlarmInit, AlarmStep, PTL DEF Spec

-----------------------------------------------------------------------------
(***************************************************************************)
(* The session.  That a tab which shows nobody signed in holds no token,   *)
(* and one which shows somebody holds that user's tokens and nobody else's *)
(* data, is not inductive: it rests on who may be waiting for what.  An    *)
(* exchange is under way only for a session that is shown or restored, and *)
(* presents its token; a request waits only for an exchange; who is signed *)
(* in is asked only by the restoring of a session or by signing in, with   *)
(* the pair just issued; and a page in the page cache has nothing under    *)
(* way.  The code relies on this of the machine and the user: a page's     *)
(* timers do not survive it in the page cache, an access token outlives    *)
(* its first request, nobody signs in while a session is being restored or *)
(* while a read of the last user's is unanswered.                          *)
(***************************************************************************)
\* Who a token belongs to, by the server's record P of the pairs.
OwnerIn(P, p) == IF p = NoToken THEN Nobody ELSE P[p].user

\* An exchange presents the token the tab holds, for whoever is signed in or being restored.
ExchangeFits(t) ==
  t.exchange.pc # "none" => /\ t.exchange.token = t.refresh
                            /\ t.refresh # NoToken
                            /\ t.ui.status \in {"loading", "signed-in"}

\* No request outlives the user it was made for, but those whose answer nobody takes in.
RequestsFit(t) ==
  /\ \A s \in Slots :
       t.request[s].pc = "waiting" =>
         s # Me /\ t.exchange.pc # "none" /\ t.ui.status = "signed-in"
  /\ \A s \in Reads :
       t.request[s].pc # "idle" =>
         t.ui.status = "signed-in" \/ (t.ui.status = "signed-out" /\ t.signing = "no")
  /\ t.ui.status # "signed-in" => t.cache = {} /\ \A s \in Slots : ~t.request[s].kept

\* Who is signed in is asked by the restoring of a session or by signing in, with the token of it.
AskingFits(t) ==
  /\ t.request[Me].pc # "idle" <=> t.signing = "me" \/ t.restoring = "me"
  /\ t.request[Me].pc # "idle" =>
       /\ t.request[Me].pc = "sent" /\ ~t.request[Me].kept
       /\ t.request[Me].token = t.refresh /\ t.refresh # NoToken

RestoringFits(t) ==
  /\ t.ui.status = "loading" <=> t.restoring # "no"
  /\ t.restoring = "refreshing" => t.exchange.pc # "none"
  /\ t.restoring = "me" => t.exchange.pc = "none"

\* What is shown, by what is held.
ScreenFits(t) ==
  /\ t.access \in {t.refresh, NoToken}
  /\ t.ui.status = "signed-out" /\ t.signing # "me" => t.refresh = NoToken
  /\ t.ui.status = "signed-in" => t.refresh # NoToken
  /\ t.signing # "no" => t.ui.status \in {"signed-out", "unavailable"}

\* The button waits for an exchange only.
LeavingFits(t) == t.leaving => t.ui.status = "signed-in" /\ t.exchange.pc # "none"

Shape(t) ==
  /\ ExchangeFits(t) /\ RequestsFit(t) /\ AskingFits(t) /\ RestoringFits(t) /\ ScreenFits(t)

\* The route, once the tab is drawn.
Placed(t) ==
  /\ t.ui.status = "signed-in" => ~t.atLogin
  /\ t.ui.status = "signed-out" => t.atLogin
  /\ t.signing # "no" => t.atLogin
  /\ t.left => t.atLogin /\ ~t.from
  /\ t.from => t.atLogin

\* A tab between two events.
Whole(t) == Shape(t) /\ LeavingFits(t) /\ Placed(t)

\* And what the route has to be like before it is drawn.
Placeable(t) ==
  /\ t.signing # "no" => t.atLogin
  /\ t.left => ~t.from /\ (t.atLogin \/ t.ui = SignedOut(FALSE))
  /\ t.from => t.atLogin

\* A tab that has only to be drawn.
Ready(t) == Shape(t) /\ LeavingFits(t) /\ Placeable(t)

\* A request that was sent with a pair just issued is not refused, and what is held, shown and
\* remembered is the user's, by the server's record P of the pairs and the expired ones E.
Owned(P, E, t) ==
  /\ \A s \in Slots :
       t.request[s].pc = "sent" /\ (s = Me \/ t.request[s].retry) =>
         t.request[s].token \in Pairs \ E
  /\ t.ui.status = "signed-in" =>
       /\ OwnerIn(P, t.refresh) = t.ui.user
       /\ t.cache \subseteq {t.ui.user}
       /\ \A s \in Slots : t.request[s].kept =>
            OwnerIn(P, t.request[s].token) \in {t.ui.user, Nobody}

\* A page in which nothing is under way.
AtRest(t) ==
  /\ t.exchange.pc = "none" /\ t.signing = "no" /\ t.restoring = "no"
  /\ \A s \in Slots : t.request[s].pc = "idle"

SessionInv ==
  /\ TypeInv
  /\ expired \subseteq Known
  /\ open => parked = NoToken
  /\ Whole(tab) /\ Owned(pair, expired, tab)
  /\ frozen # Nobody => Whole(frozen) /\ AtRest(frozen)

\* What is drawn of a tab that is ready for it.
LEMMA DrawnIsWhole ==
  ASSUME NEW t \in Tab, Ready(t), NEW P, NEW E, Owned(P, E, t)
  PROVE  Whole(Render(t)) /\ Owned(P, E, Render(t))
  <1> DEFINE u == Render(t)
  <1>1. /\ CASE t.ui.status = "signed-out" /\ ~t.atLogin ->
                  u.atLogin /\ u.from = t.ui.keepPlace /\ u.left = t.left
             [] t.ui.status = "signed-in" /\ t.atLogin ->
                  ~u.atLogin /\ ~u.from /\ ~u.left
             [] OTHER -> SamePlace(t, u)
        /\ SameTokens(t, u) /\ SameScreen(t, u) /\ SameRequests(t, u) /\ SameSigning(t, u)
        /\ u.exchange = t.exchange /\ u.leaving = t.leaving
    BY RenderIs
  <1> SUFFICES Whole(u) /\ Owned(P, E, u)
    OBVIOUS
  <1> HIDE DEF u
  <1>2. Shape(u) /\ LeavingFits(u)
    BY <1>1 DEF Ready, Shape, ExchangeFits, RequestsFit, AskingFits, RestoringFits, ScreenFits,
       LeavingFits, SameTokens, SameScreen, SameRequests, SameSigning
  <1>3. Placed(u)
    BY <1>1 DEF Ready, Shape, ScreenFits, Placeable, Placed, SignedOut, SamePlace, SameScreen, SameSigning
  <1>4. Owned(P, E, u)
    BY <1>1 DEF Owned, SameTokens, SameScreen, SameRequests
  <1>5. QED
    BY <1>2, <1>3, <1>4 DEF Whole

\* What the server does to other pairs does not touch what a tab holds.
LEMMA StillOwned ==
  ASSUME TypeInv, Extends, UNCHANGED expired, NEW t, Fit(Known, t), Owned(pair, expired, t)
  PROVE  Owned(pair', expired', t)
  <1>1. \A p \in Known \cup {NoToken} : OwnerIn(pair', p) = OwnerIn(pair, p)
    BY DEF Extends, OwnerIn
  <1>2. QED
    BY <1>1 DEF Owned, Fit

\* Leaving by the button, when no exchange is under way.
LEMMA LeaveIsReady ==
  ASSUME NEW t \in Tab, Shape(t), t.exchange.pc = "none", t.signing = "no", t.restoring = "no",
         ~t.from, NEW P, NEW E, Owned(P, E, t)
  PROVE  Ready(Leave(t)) /\ Owned(P, E, Leave(t))
  <1> DEFINE u == Leave(t)
  <1>1. /\ u.access = NoToken /\ u.refresh = NoToken
        /\ u.ui = SignedOut(FALSE) /\ u.restoring = "no"
        /\ u.cache = {}
        /\ \A s \in Slots : u.request[s] = [t.request[s] EXCEPT !.kept = FALSE]
        /\ u.atLogin = t.atLogin /\ u.from = t.from /\ u.left
        /\ SameSigning(t, u)
        /\ u.exchange = t.exchange /\ ~u.leaving
    BY LeaveIs
  <1>2. \A s \in Slots : /\ u.request[s].pc = t.request[s].pc
                         /\ u.request[s].token = t.request[s].token
                         /\ u.request[s].retry = t.request[s].retry
                         /\ ~u.request[s].kept
    <2>1. \A s \in Slots : t.request[s] \in Request
      BY DEF Tab
    <2> HIDE DEF u
    <2>2. QED
      BY <1>1, <2>1 DEF Request
  <1> SUFFICES Ready(u) /\ Owned(P, E, u)
    OBVIOUS
  <1> HIDE DEF u
  <1>3. u.ui.status = "signed-out" /\ Me \in Slots
    BY <1>1 DEF SignedOut, Slots
  <1>4. Shape(u) /\ LeavingFits(u)
    BY <1>1, <1>2, <1>3 DEF Shape, ExchangeFits, RequestsFit, AskingFits, RestoringFits, ScreenFits,
       LeavingFits, SameSigning, Slots
  <1>5. Placeable(u)
    BY <1>1 DEF Placeable, SameSigning
  <1>6. Owned(P, E, u)
    BY <1>2, <1>3 DEF Owned
  <1>7. QED
    BY <1>4, <1>5, <1>6 DEF Ready

\* The exchange has settled, and nobody was asking who is signed in.
LEMMA SettleOf ==
  ASSUME NEW t \in Tab, NEW outcome, t.request[Me].pc # "waiting"
  PROVE  LET v == RestoreRefreshed(Settled(t, outcome), outcome)
         IN  Settle(t, outcome) = IF t.leaving THEN Leave(v) ELSE v
  BY DEF Settle, Settled, Slots

\* The exchange was answered with a pair a: those that wait go on with it, the restoring of a
\* session asks whose it is, and a user who waits to leave leaves.
LEMMA RenewedIsReady ==
  ASSUME ConstantsOK, NEW t \in Tab, Whole(t), t.exchange.pc # "none",
         NEW a \in Pairs, NEW P, NEW E, Owned(P, E, t), a \notin E,
         OwnerIn(P, a) = OwnerIn(P, t.refresh)
  PROVE  LET u == Settle(Store(t, a), "renewed")
         IN  Ready(u) /\ Owned(P, E, u)
  <1> DEFINE st == Store(t, a)
             u == Settled(st, "renewed")
             v == RestoreRefreshed(u, "renewed")
  <1>0. Me \in Slots /\ \A s \in Slots : t.request[s] \in Request
    BY DEF Slots, Tab
  <1>1. /\ st \in Tab
        /\ st.access = a /\ st.refresh = a
        /\ SameScreen(t, st) /\ SameRequests(t, st) /\ SamePlace(t, st) /\ SameSigning(t, st)
        /\ st.exchange = t.exchange /\ st.leaving = t.leaving
    BY StoreIs
  <1>2. t.request[Me].pc # "waiting" /\ st.request[Me].pc # "waiting"
    BY <1>0, <1>1 DEF Whole, Shape, RequestsFit, SameRequests
  <1>3. Settle(st, "renewed") = IF st.leaving THEN Leave(v) ELSE v
    <2> HIDE DEF st
    <2>1. QED
      BY <1>1, <1>2, SettleOf
  <1>4. /\ u \in Tab
        /\ u.exchange = NoExchange
        /\ \A s \in Slots : GoesOn(st.request[s], u.request[s], st.access, "renewed")
        /\ u.cache = st.cache
        /\ SameTokens(st, u) /\ SameScreen(st, u) /\ SamePlace(st, u) /\ SameSigning(st, u)
        /\ u.leaving = st.leaving
    <2> HIDE DEF st
    <2>1. QED
      BY <1>1, SettledIs
  <1> SUFFICES Ready(IF st.leaving THEN Leave(v) ELSE v) /\ Owned(P, E, IF st.leaving THEN Leave(v) ELSE v)
    BY <1>3
  <1> HIDE DEF st, u
  <1>5. /\ u.access = a /\ u.refresh = a /\ u.exchange.pc = "none"
        /\ u.ui = t.ui /\ u.restoring = t.restoring /\ u.cache = t.cache
        /\ SamePlace(t, u) /\ SameSigning(t, u) /\ u.leaving = t.leaving /\ st.leaving = t.leaving
        /\ \A s \in Slots : GoesOn(t.request[s], u.request[s], a, "renewed")
    BY <1>1, <1>4 DEF NoExchange, SameTokens, SameScreen, SameRequests, SamePlace, SameSigning
  <1>6. a # NoToken /\ t.signing = "no"
    BY DEF Pairs, NoToken, Whole, Shape, ExchangeFits, ScreenFits
  <1>7. CASE t.ui.status = "signed-in"
    <2>1. v = u /\ t.restoring = "no"
      BY <1>5, <1>7 DEF RestoreRefreshed, Whole, Shape, RestoringFits
    <2>2. Shape(u)
      BY <1>0, <1>5, <1>6, <1>7, <2>1 DEF Whole, Shape, ExchangeFits, RequestsFit, AskingFits,
         RestoringFits, ScreenFits, GoesOn, SameSigning, Slots
    <2>3. Owned(P, E, u)
      BY <1>0, <1>5, <1>7 DEF Owned, GoesOn
    <2>4. ~t.from /\ ~t.left /\ ~t.atLogin
      BY <1>7 DEF Whole, Placed
    <2>5. CASE t.leaving
      BY <1>4, <1>5, <1>6, <2>1, <2>2, <2>3, <2>4, <2>5, LeaveIsReady DEF SamePlace, SameSigning
    <2>6. CASE ~t.leaving
      BY <1>5, <1>6, <2>1, <2>2, <2>3, <2>4, <2>6 DEF Ready, LeavingFits, Placeable, SamePlace, SameSigning
    <2>7. QED
      BY <2>5, <2>6
  <1>8. CASE t.ui.status = "loading"
    <2> DEFINE m == [u EXCEPT !.restoring = "me"]
               w == Send(m, Me, FALSE, FALSE)
    <2>1. t.restoring = "refreshing" /\ ~t.leaving
      BY <1>8 DEF Whole, Shape, RestoringFits, LeavingFits, Tab
    <2>2. v = w
      BY <1>5, <2>1 DEF RestoreRefreshed
    <2>3. /\ m \in Tab
          /\ m.restoring = "me" /\ m.ui = u.ui
          /\ SameTokens(u, m) /\ SamePlace(u, m) /\ SameRequests(u, m) /\ SameSigning(u, m)
          /\ m.exchange = u.exchange /\ m.leaving = u.leaving
      BY <1>4, RestoringIs
    <2> HIDE DEF m
    <2>4. /\ w.request = [m.request EXCEPT ![Me] = [pc |-> "sent", token |-> m.access,
                                                    retry |-> FALSE, kept |-> FALSE]]
          /\ w.cache = m.cache
          /\ SameTokens(m, w) /\ SameScreen(m, w) /\ SamePlace(m, w) /\ SameSigning(m, w)
          /\ w.exchange = m.exchange /\ w.leaving = m.leaving
      BY <1>0, <2>3, SendIs
    <2> HIDE DEF w
    <2>5. /\ w.access = a /\ w.refresh = a /\ w.exchange.pc = "none"
          /\ w.ui = t.ui /\ w.restoring = "me" /\ w.cache = t.cache
          /\ SamePlace(t, w) /\ SameSigning(t, w) /\ ~w.leaving
          /\ w.request[Me].pc = "sent" /\ w.request[Me].token = a /\ ~w.request[Me].kept
          /\ \A s \in Slots \ {Me} : w.request[s] = u.request[s]
      BY <1>0, <1>5, <2>1, <2>3, <2>4
      DEF SameTokens, SameScreen, SameRequests, SamePlace, SameSigning, Tab
    <2>6. \A s \in Slots \ {Me} : w.request[s] = t.request[s] /\ t.request[s].pc = "idle"
      BY <1>0, <1>5, <1>8, <2>5 DEF GoesOn, Whole, Shape, RequestsFit, Slots
    <2>7. Shape(w)
      <3>1. w.ui.status = "loading" /\ w.signing = "no" /\ w.refresh = a /\ w.restoring = "me"
        BY <1>6, <1>8, <2>5 DEF SameSigning
      <3>2. w.cache = {} /\ \A s \in Slots : ~w.request[s].kept
        BY <1>8, <2>5, <2>6 DEF Whole, Shape, RequestsFit
      <3>3. RequestsFit(w)
        BY <1>0, <2>5, <2>6, <3>1, <3>2 DEF RequestsFit, Slots, ConstantsOK
      <3>4. ExchangeFits(w) /\ AskingFits(w) /\ RestoringFits(w) /\ ScreenFits(w)
        BY <1>6, <2>5, <3>1 DEF ExchangeFits, AskingFits, RestoringFits, ScreenFits
      <3>5. QED
        BY <3>3, <3>4 DEF Shape
    <2>8. Placeable(w) /\ LeavingFits(w)
      BY <1>6, <1>8, <2>5 DEF Whole, Placed, Placeable, LeavingFits, SamePlace, SameSigning
    <2>9. Owned(P, E, w)
      BY <1>8, <2>5, <2>6 DEF Owned
    <2>10. QED
      BY <1>5, <2>1, <2>2, <2>7, <2>8, <2>9 DEF Ready
  <1>9. QED
    BY <1>7, <1>8 DEF Whole, Shape, ExchangeFits

\* The exchange was refused: the session is over.
LEMMA RefusedIsReady ==
  ASSUME ConstantsOK, NEW t \in Tab, Whole(t), t.exchange.pc # "none",
         NEW P, NEW E, Owned(P, E, t)
  PROVE  LET u == Settle(Clear(t), "refused")
         IN  Ready(u) /\ Owned(P, E, u)
  <1> DEFINE c == Clear(t)
             u == Settled(c, "refused")
             v == RestoreRefreshed(u, "refused")
  <1>0. Me \in Slots /\ \A s \in Slots : t.request[s] \in Request
    BY DEF Slots, Tab
  <1>1. HadSession(t) /\ t.signing = "no" /\ t.request[Me].pc = "idle"
    BY DEF HadSession, Whole, Shape, ExchangeFits, AskingFits, RestoringFits, ScreenFits
  <1>2. /\ c \in Tab
        /\ c.access = NoToken /\ c.refresh = NoToken
        /\ c.ui = SignedOut(TRUE) /\ c.restoring = "no"
        /\ RequestsEmptied(t, c)
        /\ SamePlace(t, c) /\ SameSigning(t, c)
        /\ c.exchange = t.exchange /\ c.leaving = t.leaving
    BY <1>1, ClearIs
  <1> HIDE DEF c
  <1>3. \A s \in Slots : /\ c.request[s].pc = t.request[s].pc
                         /\ c.request[s].token = t.request[s].token
                         /\ c.request[s].retry = t.request[s].retry
                         /\ ~c.request[s].kept
    BY <1>0, <1>2 DEF RequestsEmptied, Request
  <1>4. Settle(c, "refused") = IF c.leaving THEN Leave(v) ELSE v
    BY <1>0, <1>1, <1>2, <1>3, SettleOf
  <1>5. /\ u \in Tab
        /\ u.exchange = NoExchange
        /\ \A s \in Slots : GoesOn(c.request[s], u.request[s], c.access, "refused")
        /\ u.cache = c.cache
        /\ SameTokens(c, u) /\ SameScreen(c, u) /\ SamePlace(c, u) /\ SameSigning(c, u)
        /\ u.leaving = c.leaving
    BY <1>2, SettledIs
  <1> SUFFICES Ready(IF c.leaving THEN Leave(v) ELSE v) /\ Owned(P, E, IF c.leaving THEN Leave(v) ELSE v)
    BY <1>4 DEF c
  <1> HIDE DEF u
  <1>6. /\ u.access = NoToken /\ u.refresh = NoToken /\ u.exchange.pc = "none"
        /\ u.ui.status = "signed-out" /\ u.restoring = "no" /\ u.cache = {}
        /\ SamePlace(t, u) /\ u.signing = "no" /\ u.leaving = t.leaving /\ c.leaving = t.leaving
    BY <1>1, <1>2, <1>5 DEF NoExchange, SignedOut, RequestsEmptied, SameTokens, SameScreen, SamePlace,
       SameSigning
  <1>7. \A s \in Slots : /\ u.request[s].pc \in {t.request[s].pc, "idle"} \ {"waiting"}
                         /\ u.request[s].pc = "sent" => /\ u.request[s].token = t.request[s].token
                                                        /\ u.request[s].retry = t.request[s].retry
                         /\ ~u.request[s].kept
    BY <1>3, <1>5 DEF GoesOn, Idle
  <1>8. v = u
    BY <1>6 DEF RestoreRefreshed
  <1>9. Shape(u)
    BY <1>0, <1>1, <1>6, <1>7 DEF Shape, ExchangeFits, RequestsFit, AskingFits, RestoringFits,
       ScreenFits, Slots
  <1>10. Owned(P, E, u)
    BY <1>6, <1>7 DEF Owned
  <1>11. t.leaving => ~t.from
    BY DEF Whole, LeavingFits, Placed
  <1>12. CASE t.leaving
    BY <1>5, <1>6, <1>8, <1>9, <1>10, <1>11, <1>12, LeaveIsReady DEF SamePlace
  <1>13. CASE ~t.leaving
    <2>1. t.left => t.atLogin
      BY DEF Whole, Placed
    <2>2. QED
      BY <1>6, <1>8, <1>9, <1>10, <1>13, <2>1 DEF Ready, LeavingFits, Placeable, Placed, Whole, SamePlace
  <1>14. QED
    BY <1>12, <1>13

\* No attempt of the exchange was answered.
LEMMA UnansweredIsReady ==
  ASSUME ConstantsOK, NEW t \in Tab, Whole(t), t.exchange.pc # "none",
         NEW P, NEW E, Owned(P, E, t)
  PROVE  LET u == Settle(t, "unavailable")
         IN  Ready(u) /\ Owned(P, E, u)
  <1> DEFINE u == Settled(t, "unavailable")
             v == RestoreRefreshed(u, "unavailable")
  <1>0. Me \in Slots /\ \A s \in Slots : t.request[s] \in Request
    BY DEF Slots, Tab
  <1>1. t.signing = "no" /\ t.request[Me].pc = "idle" /\ t.refresh # NoToken
    BY DEF Whole, Shape, ExchangeFits, AskingFits, RestoringFits, ScreenFits
  <1>2. Settle(t, "unavailable") = IF t.leaving THEN Leave(v) ELSE v
    BY <1>1, SettleOf
  <1>3. /\ u \in Tab
        /\ u.exchange = NoExchange
        /\ \A s \in Slots : GoesOn(t.request[s], u.request[s], t.access, "unavailable")
        /\ u.cache = t.cache
        /\ SameTokens(t, u) /\ SameScreen(t, u) /\ SamePlace(t, u) /\ SameSigning(t, u)
        /\ u.leaving = t.leaving
    BY SettledIs
  <1> SUFFICES Ready(IF t.leaving THEN Leave(v) ELSE v) /\ Owned(P, E, IF t.leaving THEN Leave(v) ELSE v)
    BY <1>2
  <1> HIDE DEF u
  <1>4. \A s \in Slots : /\ u.request[s].pc \in {t.request[s].pc, "idle"} \ {"waiting"}
                         /\ u.request[s].pc = "sent" => u.request[s] = t.request[s]
                         /\ u.request[s].kept => u.request[s] = t.request[s]
    BY <1>3 DEF GoesOn, Idle
  <1>5. u.exchange.pc = "none" /\ u.refresh # NoToken /\ u.signing = "no"
    BY <1>1, <1>3 DEF NoExchange, SameTokens, SameSigning
  <1>6. CASE t.ui.status = "signed-in"
    <2>1. v = u /\ t.restoring = "no"
      BY <1>3, <1>6 DEF RestoreRefreshed, Whole, Shape, RestoringFits, SameScreen
    <2>2. Shape(u)
      BY <1>0, <1>1, <1>3, <1>4, <1>5, <1>6, <2>1 DEF Whole, Shape, ExchangeFits, RequestsFit,
         AskingFits, RestoringFits, ScreenFits, SameTokens, SameScreen, Slots
    <2>3. Owned(P, E, u)
      BY <1>3, <1>4, <1>6 DEF Owned, SameTokens, SameScreen
    <2>4. ~t.from /\ ~t.left /\ ~t.atLogin
      BY <1>6 DEF Whole, Placed
    <2>5. CASE t.leaving
      BY <1>3, <1>5, <2>1, <2>2, <2>3, <2>4, <2>5, LeaveIsReady DEF SamePlace, SameScreen
    <2>6. CASE ~t.leaving
      BY <1>3, <1>5, <2>1, <2>2, <2>3, <2>4, <2>6 DEF Ready, LeavingFits, Placeable, SamePlace
    <2>7. QED
      BY <2>5, <2>6
  <1>7. CASE t.ui.status = "loading"
    <2>1. t.restoring = "refreshing" /\ ~t.leaving
      BY <1>7 DEF Whole, Shape, RestoringFits, LeavingFits, Tab
    <2> DEFINE w == Show(u, Unavailable)
    <2>2. v = w
      BY <1>3, <2>1 DEF RestoreRefreshed, SameScreen
    <2>3. /\ w.ui.status = "unavailable" /\ w.restoring = "no"
          /\ SameTokens(u, w) /\ SameRequests(u, w) /\ SamePlace(u, w) /\ SameSigning(u, w)
          /\ w.exchange = u.exchange /\ w.leaving = u.leaving
      BY <1>3, ShowIs, ScreensAre DEF Unavailable
    <2> HIDE DEF w
    <2>4. /\ \A s \in Slots : w.request[s].pc = "idle" /\ ~w.request[s].kept
          /\ w.cache = {}
      BY <1>0, <1>1, <1>3, <1>4, <1>7, <2>3 DEF Whole, Shape, RequestsFit, SameRequests, Slots, Tab, Request
    <2>5. Shape(w)
      BY <1>0, <1>3, <1>5, <2>3, <2>4 DEF Whole, Shape, ExchangeFits, RequestsFit, AskingFits,
         RestoringFits, ScreenFits, SameTokens, SameSigning, Slots
    <2>6. Placeable(w) /\ LeavingFits(w)
      BY <1>3, <1>5, <2>1, <2>3 DEF Whole, Placed, Placeable, LeavingFits, SamePlace, SameSigning
    <2>7. Owned(P, E, w)
      BY <2>3, <2>4 DEF Owned
    <2>8. QED
      BY <2>1, <2>2, <2>5, <2>6, <2>7 DEF Ready
  <1>8. QED
    BY <1>6, <1>7 DEF Whole, Shape, ExchangeFits

\* The effect of "loading", begun in a page where nothing is under way.
LEMMA RestoreIsReady ==
  ASSUME ConstantsOK, NEW t \in Tab, t.ui.status # "loading", AtRest(t), ~t.leaving, t.cache = {},
         \A s \in Slots : ~t.request[s].kept, t.access \in {t.refresh, NoToken},
         t.left => t.atLogin /\ ~t.from, t.from => t.atLogin, NEW P, NEW E
  PROVE  Ready(StartRestore(t)) /\ Owned(P, E, StartRestore(t))
  <1> DEFINE h == Show(t, Loading)
             u == [h EXCEPT !.restoring = "refreshing"]
  <1>0. Me \in Slots
    BY DEF Slots
  <1>1. /\ h \in Tab
        /\ h.ui = Loading
        /\ SameTokens(t, h) /\ SameRequests(t, h) /\ SamePlace(t, h) /\ SameSigning(t, h)
        /\ h.exchange = t.exchange /\ h.leaving = t.leaving
    BY ShowIs, ScreensAre
  <1>2. StartRestore(t) = IF Refusable(u) THEN RestoreRefreshed(u, "refused") ELSE BeginExchange(u)
    BY DEF StartRestore
  <1> HIDE DEF h
  <1>3. /\ u \in Tab
        /\ u.restoring = "refreshing" /\ u.ui = h.ui
        /\ SameTokens(h, u) /\ SamePlace(h, u) /\ SameRequests(h, u) /\ SameSigning(h, u)
        /\ u.exchange = h.exchange /\ u.leaving = h.leaving
    BY <1>1, RestoringIs
  <1> HIDE DEF u
  <1>4. /\ u.ui.status = "loading" /\ u.cache = {} /\ u.signing = "no" /\ ~u.leaving
        /\ u.exchange.pc = "none" /\ SameTokens(t, u) /\ SamePlace(t, u)
        /\ \A s \in Slots : u.request[s].pc = "idle" /\ ~u.request[s].kept
    BY <1>1, <1>3 DEF Loading, AtRest, SameTokens, SameRequests, SamePlace, SameSigning
  <1>5. CASE u.refresh = NoToken
    <2> DEFINE w == Show(u, SignedOut(TRUE))
    <2>1. StartRestore(t) = w
      BY <1>2, <1>3, <1>4, <1>5 DEF Refusable, RestoreRefreshed
    <2>a. SignedOut(TRUE) \in AuthState /\ SignedOut(TRUE).status = "signed-out"
      BY ScreensAre DEF SignedOut
    <2>2. /\ w.ui.status = "signed-out" /\ w.restoring = "no"
          /\ SameTokens(u, w) /\ SameRequests(u, w) /\ SamePlace(u, w) /\ SameSigning(u, w)
          /\ w.exchange = u.exchange /\ w.leaving = u.leaving
      BY <1>3, <2>a, ShowIs
    <2> HIDE DEF w
    <2>3. Shape(w) /\ LeavingFits(w)
      BY <1>0, <1>4, <1>5, <2>2 DEF Shape, ExchangeFits, RequestsFit, AskingFits, RestoringFits,
         ScreenFits, LeavingFits, SameTokens, SameRequests, SameSigning, Slots
    <2>4. Placeable(w)
      BY <1>4, <2>2 DEF Placeable, SamePlace, SameSigning
    <2>5. Owned(P, E, w)
      BY <1>4, <2>2 DEF Owned, SameRequests
    <2>6. QED
      BY <2>1, <2>3, <2>4, <2>5 DEF Ready
  <1>6. CASE u.refresh # NoToken
    <2> DEFINE w == BeginExchange(u)
    <2>1. StartRestore(t) = w
      BY <1>2, <1>6 DEF Refusable
    <2>2. /\ w.exchange.pc = "sent" /\ w.exchange.token = u.refresh
          /\ SameTokens(u, w) /\ SameScreen(u, w) /\ SameRequests(u, w) /\ SamePlace(u, w)
          /\ SameSigning(u, w) /\ w.leaving = u.leaving
      BY <1>3, <1>4, BeginExchangeIs
    <2> HIDE DEF w
    <2>3. Shape(w) /\ LeavingFits(w)
      BY <1>0, <1>3, <1>4, <1>6, <2>2 DEF Shape, ExchangeFits, RequestsFit, AskingFits, RestoringFits,
         ScreenFits, LeavingFits, SameTokens, SameScreen, SameRequests, SameSigning, Slots
    <2>4. Placeable(w)
      BY <1>4, <2>2 DEF Placeable, SamePlace, SameSigning
    <2>5. Owned(P, E, w)
      BY <1>4, <2>2 DEF Owned, SameRequests, SameScreen
    <2>6. QED
      BY <2>1, <2>3, <2>4, <2>5 DEF Ready
  <1>7. QED
    BY <1>5, <1>6

\* A page just loaded, with what was parked for it.
LEMMA BlankIsReady ==
  ASSUME ConstantsOK, NEW p \in Pairs \cup {NoToken}, NEW login \in BOOLEAN, NEW P, NEW E
  PROVE  /\ Ready(Blank(p, login)) /\ Owned(P, E, Blank(p, login))
         /\ Whole(Blank(NoToken, TRUE))
  <1> DEFINE t(q, l) == [ access |-> NoToken, refresh |-> q, ui |-> SignedOut(TRUE), atLogin |-> l,
                    from |-> FALSE, left |-> FALSE,
                    cache |-> {}, exchange |-> NoExchange, request |-> [s \in Slots |-> Idle],
                    restoring |-> "no", signing |-> "no", account |-> Nobody, leaving |-> FALSE ]
  <1>1. SignedOut(TRUE) \in AuthState /\ NoExchange \in Exchange /\ Idle \in Request
    <2>1. SignedOut(TRUE) \in AuthState
      BY ScreensAre
    <2>2. NoExchange \in Exchange
      BY DEF NoExchange, Exchange, ConstantsOK
    <2>3. Idle \in Request
      BY DEF Idle, Request
    <2>4. QED
      BY <2>1, <2>2, <2>3
  <1>2. ASSUME NEW q \in Pairs \cup {NoToken}, NEW l \in BOOLEAN
        PROVE  /\ t(q, l) \in Tab /\ t(q, l).refresh = q /\ t(q, l).access = NoToken
               /\ t(q, l).ui = SignedOut(TRUE) /\ t(q, l).atLogin = l
               /\ ~t(q, l).from /\ ~t(q, l).left
               /\ t(q, l).cache = {} /\ t(q, l).exchange = NoExchange
               /\ \A s \in Slots : t(q, l).request[s] = Idle
               /\ t(q, l).restoring = "no" /\ t(q, l).signing = "no" /\ ~t(q, l).leaving
    BY <1>1, <1>2 DEF Tab
  <1>3. /\ Blank(p, login) = IF p = NoToken THEN t(p, login) ELSE StartRestore(t(p, login))
        /\ Blank(NoToken, TRUE) = t(NoToken, TRUE)
    BY DEF Blank
  <1>4. Me \in Slots /\ SignedOut(TRUE).status = "signed-out" /\ NoExchange.pc = "none"
        /\ Idle.pc = "idle" /\ ~Idle.kept
    BY DEF Slots, SignedOut, NoExchange, Idle
  <1> HIDE DEF t
  <1>5. ASSUME NEW l \in BOOLEAN
        PROVE  /\ Ready(t(NoToken, l)) /\ Owned(P, E, t(NoToken, l))
               /\ l => Whole(t(NoToken, l))
    <2> DEFINE w == t(NoToken, l)
    <2>1. /\ w.refresh = NoToken /\ w.access = NoToken
          /\ w.ui.status = "signed-out" /\ w.atLogin = l /\ ~w.from /\ ~w.left
          /\ w.cache = {} /\ w.exchange.pc = "none"
          /\ \A s \in Slots : w.request[s].pc = "idle" /\ ~w.request[s].kept
          /\ w.restoring = "no" /\ w.signing = "no" /\ ~w.leaving
      <3>1. /\ w.refresh = NoToken /\ w.access = NoToken
            /\ w.ui = SignedOut(TRUE) /\ w.atLogin = l /\ ~w.from /\ ~w.left
            /\ w.cache = {} /\ w.exchange = NoExchange
            /\ \A s \in Slots : w.request[s] = Idle
            /\ w.restoring = "no" /\ w.signing = "no" /\ ~w.leaving
        <4>1. NoToken \in Pairs \cup {NoToken}
          OBVIOUS
        <4>2. /\ t(NoToken, l).refresh = NoToken /\ t(NoToken, l).access = NoToken
              /\ t(NoToken, l).ui = SignedOut(TRUE) /\ t(NoToken, l).atLogin = l
              /\ ~t(NoToken, l).from /\ ~t(NoToken, l).left
              /\ t(NoToken, l).cache = {} /\ t(NoToken, l).exchange = NoExchange
              /\ \A s \in Slots : t(NoToken, l).request[s] = Idle
              /\ t(NoToken, l).restoring = "no" /\ t(NoToken, l).signing = "no"
              /\ ~t(NoToken, l).leaving
          BY <1>2, <1>5, <4>1
        <4>3. QED
          BY <4>2
      <3> HIDE DEF w
      <3>2. QED
        BY <1>4, <3>1
    <2> HIDE DEF w
    <2>2. Shape(w) /\ LeavingFits(w)
      BY <1>4, <2>1 DEF Shape, ExchangeFits, RequestsFit, AskingFits, RestoringFits, ScreenFits,
         LeavingFits, Slots
    <2>3. Placeable(w) /\ (l => Placed(w))
      BY <2>1 DEF Placeable, Placed
    <2>4. Owned(P, E, w)
      BY <2>1 DEF Owned
    <2>5. QED
      BY <2>2, <2>3, <2>4 DEF Ready, Whole, w
  <1>6. Ready(StartRestore(t(p, login))) /\ Owned(P, E, StartRestore(t(p, login)))
    <2> DEFINE w == t(p, login)
    <2>1. /\ w \in Tab /\ w.ui.status # "loading" /\ AtRest(w) /\ ~w.leaving /\ w.cache = {}
          /\ \A s \in Slots : ~w.request[s].kept
          /\ w.access \in {w.refresh, NoToken}
          /\ w.left => w.atLogin /\ ~w.from
          /\ w.from => w.atLogin
      <3>1. /\ w \in Tab /\ w.access = NoToken
            /\ w.ui = SignedOut(TRUE) /\ ~w.from /\ ~w.left
            /\ w.cache = {} /\ w.exchange = NoExchange
            /\ \A s \in Slots : w.request[s] = Idle
            /\ w.restoring = "no" /\ w.signing = "no" /\ ~w.leaving
        BY <1>2
      <3> HIDE DEF w
      <3>2. QED
        BY <1>4, <3>1 DEF AtRest
    <2> HIDE DEF w
    <2>2. Ready(StartRestore(w)) /\ Owned(P, E, StartRestore(w))
      BY <2>1, RestoreIsReady
    <2>3. QED
      BY <2>2 DEF w
  <1>7. QED
    BY <1>3, <1>5, <1>6

\* A read that is over, well or not, with nothing in the cache for it.
LEMMA DoneIsReady ==
  ASSUME ConstantsOK, NEW t \in Tab, Whole(t), NEW s \in Reads, NEW P, NEW E, Owned(P, E, t)
  PROVE  Ready(Done(t, s)) /\ Owned(P, E, Done(t, s))
  <1> DEFINE u == Done(t, s)
  <1>0. s \in Slots /\ Me \in Slots /\ s # Me
    BY DEF Slots, ConstantsOK
  <1>1. /\ u.request = [t.request EXCEPT ![s] = Idle]
        /\ u.cache = t.cache
        /\ SameTokens(t, u) /\ SameScreen(t, u) /\ SamePlace(t, u) /\ SameSigning(t, u)
        /\ u.exchange = t.exchange /\ u.leaving = t.leaving
    BY <1>0, DoneIs
  <1> SUFFICES Ready(u) /\ Owned(P, E, u)
    OBVIOUS
  <1> HIDE DEF u
  <1>2. /\ u.request[s].pc = "idle" /\ ~u.request[s].kept
        /\ \A o \in Slots \ {s} : u.request[o] = t.request[o]
    BY <1>0, <1>1 DEF Tab, Idle
  <1>3. Shape(u) /\ LeavingFits(u)
    BY <1>0, <1>1, <1>2 DEF Whole, Shape, ExchangeFits, RequestsFit, AskingFits, RestoringFits,
       ScreenFits, LeavingFits, SameTokens, SameScreen, SameSigning, Slots
  <1>4. Placeable(u)
    BY <1>1 DEF Whole, Placed, Placeable, SamePlace, SameSigning
  <1>5. Owned(P, E, u)
    BY <1>1, <1>2 DEF Owned, SameTokens, SameScreen
  <1>6. QED
    BY <1>3, <1>4, <1>5 DEF Ready

\* A read that is answered for who.
LEMMA CachedIsReady ==
  ASSUME ConstantsOK, NEW t \in Tab, Whole(t), NEW s \in Reads, NEW P, NEW E, Owned(P, E, t),
         NEW who \in Users, OwnerIn(P, t.request[s].token) = who
  PROVE  Ready(Ok(t, s, who)) /\ Owned(P, E, Ok(t, s, who))
  <1> DEFINE d == Done(t, s)
             u == [d EXCEPT !.cache = @ \cup {who}]
  <1>0. s \in Slots /\ s # Me
    BY DEF Slots, ConstantsOK
  <1>1. Ready(d) /\ Owned(P, E, d)
    BY DoneIsReady
  <1>2. Ok(t, s, who) = IF t.request[s].kept THEN u ELSE d
    BY <1>0 DEF Ok
  <1>3. CASE t.request[s].kept
    <2>1. d \in Tab /\ SameScreen(t, d)
      BY <1>0, DoneIs
    <2>2. t.ui.status = "signed-in" /\ t.ui.user = who
      BY <1>0, <1>3 DEF Whole, Shape, RequestsFit, Owned, ConstantsOK
    <2> HIDE DEF d
    <2>3. /\ u.cache = d.cache \cup {who} /\ u.request = d.request
          /\ SameTokens(d, u) /\ SameScreen(d, u) /\ SamePlace(d, u) /\ SameSigning(d, u)
          /\ u.exchange = d.exchange /\ u.leaving = d.leaving
      BY <2>1, CacheIs
    <2> HIDE DEF u
    <2>4. d.ui.status = "signed-in" /\ d.ui.user = who
      BY <2>1, <2>2 DEF SameScreen
    <2>5. Shape(u) /\ LeavingFits(u)
      BY <1>1, <2>3, <2>4 DEF Ready, Shape, ExchangeFits, RequestsFit, AskingFits, RestoringFits,
         ScreenFits, LeavingFits, SameTokens, SameScreen, SameSigning
    <2>6. Placeable(u)
      BY <1>1, <2>3 DEF Ready, Placeable, SamePlace, SameSigning, SameScreen
    <2>7. Owned(P, E, u)
      BY <1>1, <2>3, <2>4 DEF Owned, SameTokens, SameScreen
    <2>8. QED
      BY <1>2, <1>3, <2>5, <2>6, <2>7 DEF Ready
  <1>4. CASE ~t.request[s].kept
    BY <1>1, <1>2, <1>4
  <1>5. QED
    BY <1>3, <1>4

\* Who is signed in is known: the session is restored, or the sign-in complete.
LEMMA KnownIsReady ==
  ASSUME ConstantsOK, NEW t \in Tab, Whole(t), t.request[Me].pc # "idle", NEW P, NEW E, Owned(P, E, t),
         NEW who \in Users, OwnerIn(P, t.request[Me].token) = who
  PROVE  Ready(Ok(t, Me, who)) /\ Owned(P, E, Ok(t, Me, who))
  <1> DEFINE d == Done(t, Me)
             g == Signed(d)
             e == Emptied(g)
             y == Show(e, SignedIn(who))
             z == Show(d, SignedIn(who))
  <1>0. /\ Me \in Slots /\ \A s \in Slots : t.request[s] \in Request
        /\ t.refresh # NoToken /\ OwnerIn(P, t.refresh) = who
        /\ t.signing = "me" \/ t.restoring = "me"
    BY DEF Slots, Tab, Whole, Shape, AskingFits
  <1>1. /\ d \in Tab
        /\ d.request = [t.request EXCEPT ![Me] = Idle]
        /\ d.cache = t.cache
        /\ SameTokens(t, d) /\ SameScreen(t, d) /\ SamePlace(t, d) /\ SameSigning(t, d)
        /\ d.exchange = t.exchange /\ d.leaving = t.leaving
    BY <1>0, DoneIs
  <1>2. Ok(t, Me, who) = IF t.signing = "me" THEN y
                         ELSE IF t.restoring = "me" THEN z ELSE d
    BY DEF Ok
  <1> HIDE DEF d
  <1>3. /\ d.request[Me].pc = "idle" /\ ~d.request[Me].kept
        /\ \A s \in Slots \ {Me} : d.request[s] = t.request[s]
    BY <1>0, <1>1 DEF Tab, Idle
  <1>4. SignedIn(who).status = "signed-in" /\ SignedIn(who).user = who /\ SignedIn(who) \in AuthState
    BY ScreensAre DEF SignedIn
  <1>5. \A s \in Reads : t.request[s].pc = "idle"
    BY <1>0 DEF Whole, Shape, RequestsFit, RestoringFits, ScreenFits, Tab
  <1>6. /\ \A s \in Slots : d.request[s].pc = "idle" /\ ~d.request[s].kept
        /\ t.exchange.pc = "none" /\ ~t.leaving /\ t.cache = {}
    BY <1>0, <1>3, <1>5 DEF Whole, Shape, ExchangeFits, RequestsFit, RestoringFits, ScreenFits,
       LeavingFits, Slots, Tab
  <1>7. ASSUME NEW w, w.ui = SignedIn(who), w.restoring = "no", w.signing = "no", w.cache = {},
               SameTokens(t, w), SamePlace(t, w), w.exchange = t.exchange, w.leaving = t.leaving,
               \A s \in Slots : w.request[s].pc = "idle" /\ ~w.request[s].kept,
               ~t.left \/ t.atLogin
        PROVE  Ready(w) /\ Owned(P, E, w)
    <2>1. Shape(w) /\ LeavingFits(w)
      BY <1>0, <1>4, <1>6, <1>7 DEF Whole, Shape, ExchangeFits, RequestsFit, AskingFits,
         RestoringFits, ScreenFits, LeavingFits, SameTokens, Slots
    <2>2. Placeable(w)
      BY <1>7 DEF Whole, Placed, Placeable, SamePlace
    <2>3. Owned(P, E, w)
      BY <1>0, <1>4, <1>7 DEF Owned, SameTokens
    <2>4. QED
      BY <2>1, <2>2, <2>3 DEF Ready
  <1>8. ~t.left \/ t.atLogin
    BY DEF Whole, Placed
  <1>9. CASE t.signing = "me"
    <2>1. /\ g \in Tab /\ g.signing = "no"
          /\ SameTokens(d, g) /\ SameScreen(d, g) /\ SamePlace(d, g) /\ SameRequests(d, g)
          /\ g.exchange = d.exchange /\ g.leaving = d.leaving
      BY <1>1, SignedIs
    <2> HIDE DEF g
    <2>2. /\ e \in Tab
          /\ RequestsEmptied(g, e)
          /\ SameTokens(g, e) /\ SamePlace(g, e) /\ SameSigning(g, e)
          /\ e.exchange = g.exchange /\ e.leaving = g.leaving
      BY <2>1, EmptiedIs
    <2> HIDE DEF e
    <2>3. /\ y.ui = SignedIn(who) /\ y.restoring = "no"
          /\ SameTokens(e, y) /\ SameRequests(e, y) /\ SamePlace(e, y) /\ SameSigning(e, y)
          /\ y.exchange = e.exchange /\ y.leaving = e.leaving
      BY <1>4, <2>2, ShowIs
    <2> HIDE DEF y
    <2>4. \A s \in Slots : y.request[s].pc = "idle" /\ ~y.request[s].kept
      <3>1. \A s \in Slots : d.request[s] \in Request
        BY <1>1 DEF Tab
      <3>2. \A s \in Slots : y.request[s] = [d.request[s] EXCEPT !.kept = FALSE]
        BY <2>1, <2>2, <2>3 DEF RequestsEmptied, SameRequests
      <3>3. QED
        BY <1>6, <3>1, <3>2 DEF Request
    <2>5. /\ y.signing = "no" /\ y.cache = {} /\ SameTokens(t, y) /\ SamePlace(t, y)
          /\ y.exchange = t.exchange /\ y.leaving = t.leaving
      BY <1>1, <2>1, <2>2, <2>3 DEF RequestsEmptied, SameTokens, SameRequests, SamePlace, SameSigning
    <2>6. Ready(y) /\ Owned(P, E, y)
      BY <1>7, <1>8, <2>3, <2>4, <2>5
    <2>7. QED
      BY <1>2, <1>9, <2>6
  <1>10. CASE t.signing # "me"
    <2>1. t.restoring = "me" /\ t.signing = "no"
      BY <1>0, <1>10 DEF Whole, Shape, RestoringFits, ScreenFits, Tab
    <2>2. /\ z.ui = SignedIn(who) /\ z.restoring = "no"
          /\ SameTokens(d, z) /\ SameRequests(d, z) /\ SamePlace(d, z) /\ SameSigning(d, z)
          /\ z.exchange = d.exchange /\ z.leaving = d.leaving
      BY <1>1, <1>4, ShowIs
    <2> HIDE DEF z
    <2>3. /\ z.signing = "no" /\ z.cache = {} /\ SameTokens(t, z) /\ SamePlace(t, z)
          /\ z.exchange = t.exchange /\ z.leaving = t.leaving
          /\ \A s \in Slots : z.request[s].pc = "idle" /\ ~z.request[s].kept
      BY <1>1, <1>6, <2>1, <2>2 DEF SameTokens, SameRequests, SamePlace, SameSigning
    <2>4. Ready(z) /\ Owned(P, E, z)
      BY <1>7, <1>8, <2>2, <2>3
    <2>5. QED
      BY <1>2, <1>10, <2>1, <2>4
  <1>11. QED
    BY <1>9, <1>10

\* Who is signed in could not be learnt: a sign-in fails and leaves nothing behind, a session
\* to be restored stays to be restored.
LEMMA UnknownIsReady ==
  ASSUME ConstantsOK, NEW t \in Tab, Whole(t), t.request[Me].pc # "idle", NEW P, NEW E, Owned(P, E, t)
  PROVE  Ready(Reject(t, Me, FALSE)) /\ Owned(P, E, Reject(t, Me, FALSE))
  <1> DEFINE d == Done(t, Me)
             c == Clear(d)
             y == Signed(c)
             z == Show(d, Unavailable)
  <1>0. /\ Me \in Slots /\ \A s \in Slots : t.request[s] \in Request
        /\ t.refresh # NoToken
        /\ t.signing = "me" \/ t.restoring = "me"
    BY DEF Slots, Tab, Whole, Shape, AskingFits
  <1>1. /\ d \in Tab
        /\ d.request = [t.request EXCEPT ![Me] = Idle]
        /\ d.cache = t.cache
        /\ SameTokens(t, d) /\ SameScreen(t, d) /\ SamePlace(t, d) /\ SameSigning(t, d)
        /\ d.exchange = t.exchange /\ d.leaving = t.leaving
    BY <1>0, DoneIs
  <1>2. Reject(t, Me, FALSE) = IF t.signing = "me" THEN y
                               ELSE IF t.restoring = "me" THEN z ELSE d
    <2>1. d.signing = t.signing /\ d.restoring = t.restoring
      BY <1>1 DEF SameSigning, SameScreen
    <2>2. QED
      BY <2>1 DEF Reject, Done, Signed
  <1> HIDE DEF d
  <1>3. /\ d.request[Me].pc = "idle" /\ ~d.request[Me].kept
        /\ \A s \in Slots \ {Me} : d.request[s] = t.request[s]
    BY <1>0, <1>1 DEF Tab, Idle
  <1>4. \A s \in Reads : t.request[s].pc = "idle"
    BY <1>0 DEF Whole, Shape, RequestsFit, RestoringFits, ScreenFits, Tab
  <1>5. /\ \A s \in Slots : d.request[s].pc = "idle" /\ ~d.request[s].kept
        /\ t.exchange.pc = "none" /\ ~t.leaving /\ t.cache = {}
    BY <1>0, <1>3, <1>4 DEF Whole, Shape, ExchangeFits, RequestsFit, RestoringFits, ScreenFits,
       LeavingFits, Slots, Tab
  <1>6. ASSUME NEW w, w.restoring = "no", w.signing = "no", w.cache = {},
               w.access \in {w.refresh, NoToken},
               \/ w.ui.status = "signed-out" /\ w.refresh = NoToken
               \/ w.ui.status = "unavailable",
               SamePlace(t, w), w.exchange = t.exchange, w.leaving = t.leaving,
               \A s \in Slots : w.request[s].pc = "idle" /\ ~w.request[s].kept
        PROVE  Ready(w) /\ Owned(P, E, w)
    <2>1. Shape(w) /\ LeavingFits(w)
      BY <1>0, <1>5, <1>6 DEF Whole, Shape, ExchangeFits, RequestsFit, AskingFits,
         RestoringFits, ScreenFits, LeavingFits, Slots
    <2>2. Placeable(w)
      BY <1>6 DEF Whole, Placed, Placeable, SamePlace
    <2>3. Owned(P, E, w)
      BY <1>6 DEF Owned
    <2>4. QED
      BY <2>1, <2>2, <2>3 DEF Ready
  <1>7. CASE t.signing = "me"
    <2>1. HadSession(d)
      BY <1>0, <1>1 DEF HadSession, SameTokens
    <2>2. /\ c \in Tab
          /\ c.access = NoToken /\ c.refresh = NoToken
          /\ c.ui = SignedOut(TRUE) /\ c.restoring = "no"
          /\ RequestsEmptied(d, c)
          /\ SamePlace(d, c)
          /\ c.exchange = d.exchange /\ c.leaving = d.leaving
      BY <1>1, <2>1, ClearIs
    <2> HIDE DEF c
    <2>3. /\ y.signing = "no"
          /\ SameTokens(c, y) /\ SameScreen(c, y) /\ SamePlace(c, y) /\ SameRequests(c, y)
          /\ y.exchange = c.exchange /\ y.leaving = c.leaving
      BY <2>2, SignedIs
    <2> HIDE DEF y
    <2>4. \A s \in Slots : y.request[s].pc = "idle" /\ ~y.request[s].kept
      <3>1. \A s \in Slots : d.request[s] \in Request
        BY <1>1 DEF Tab
      <3>2. \A s \in Slots : y.request[s] = [d.request[s] EXCEPT !.kept = FALSE]
        BY <2>2, <2>3 DEF RequestsEmptied, SameRequests
      <3>3. QED
        BY <1>5, <3>1, <3>2 DEF Request
    <2>5. /\ y.ui.status = "signed-out" /\ y.access = NoToken /\ y.refresh = NoToken
          /\ y.restoring = "no" /\ y.cache = {} /\ SamePlace(t, y)
          /\ y.exchange = t.exchange /\ y.leaving = t.leaving
      BY <1>1, <2>2, <2>3 DEF SignedOut, RequestsEmptied, SameTokens, SameScreen, SameRequests, SamePlace
    <2>6. QED
      BY <1>2, <1>6, <1>7, <2>3, <2>4, <2>5
  <1>8. CASE t.signing # "me"
    <2>1. t.restoring = "me" /\ t.signing = "no"
      BY <1>0, <1>8 DEF Whole, Shape, RestoringFits, ScreenFits, Tab
    <2>2. Unavailable \in AuthState /\ Unavailable.status = "unavailable"
      BY ScreensAre DEF Unavailable
    <2>3. /\ z.ui = Unavailable /\ z.restoring = "no"
          /\ SameTokens(d, z) /\ SameRequests(d, z) /\ SamePlace(d, z) /\ SameSigning(d, z)
          /\ z.exchange = d.exchange /\ z.leaving = d.leaving
      BY <1>1, <2>2, ShowIs
    <2> HIDE DEF z
    <2>4. /\ z.ui.status = "unavailable" /\ z.signing = "no" /\ z.cache = {} /\ SamePlace(t, z)
          /\ z.access \in {z.refresh, NoToken}
          /\ z.exchange = t.exchange /\ z.leaving = t.leaving
          /\ \A s \in Slots : z.request[s].pc = "idle" /\ ~z.request[s].kept
      BY <1>1, <1>5, <2>1, <2>2, <2>3
      DEF Whole, Shape, ScreenFits, SameTokens, SameRequests, SamePlace, SameSigning
    <2>5. QED
      BY <1>2, <1>6, <1>8, <2>1, <2>3, <2>4
  <1>9. QED
    BY <1>7, <1>8

\* The answer of POST /auth/login: who it is for is asked next.
LEMMA LoggedInIsWhole ==
  ASSUME ConstantsOK, NEW t \in Tab, Whole(t), t.signing = "login", NEW p \in Pairs,
         NEW P, NEW E, Owned(P, E, t), p \notin E
  PROVE  LET u == Send([Store(t, p) EXCEPT !.signing = "me"], Me, FALSE, FALSE)
         IN  Whole(u) /\ Owned(P, E, u)
  <1> DEFINE st == Store(t, p)
             m == [st EXCEPT !.signing = "me"]
             u == Send(m, Me, FALSE, FALSE)
  <1>0. Me \in Slots /\ p # NoToken
    BY DEF Slots, Pairs, NoToken
  <1>1. /\ st \in Tab
        /\ st.access = p /\ st.refresh = p
        /\ SameScreen(t, st) /\ SameRequests(t, st) /\ SamePlace(t, st) /\ SameSigning(t, st)
        /\ st.exchange = t.exchange /\ st.leaving = t.leaving
    BY StoreIs
  <1> HIDE DEF st
  <1>2. /\ m \in Tab
        /\ m.signing = "me" /\ m.account = st.account
        /\ SameTokens(st, m) /\ SameScreen(st, m) /\ SamePlace(st, m) /\ SameRequests(st, m)
        /\ m.exchange = st.exchange /\ m.leaving = st.leaving
    BY <1>1, SigningIs
  <1> HIDE DEF m
  <1>3. /\ u.request = [m.request EXCEPT ![Me] = [pc |-> "sent", token |-> m.access,
                                                  retry |-> FALSE, kept |-> FALSE]]
        /\ u.cache = m.cache
        /\ SameTokens(m, u) /\ SameScreen(m, u) /\ SamePlace(m, u) /\ SameSigning(m, u)
        /\ u.exchange = m.exchange /\ u.leaving = m.leaving
    BY <1>0, <1>2, SendIs
  <1> SUFFICES Whole(u) /\ Owned(P, E, u)
    BY DEF m, st
  <1> HIDE DEF u
  <1>4. /\ u.access = p /\ u.refresh = p /\ u.exchange = t.exchange
        /\ u.ui = t.ui /\ u.restoring = t.restoring /\ u.cache = t.cache
        /\ SamePlace(t, u) /\ u.signing = "me" /\ u.leaving = t.leaving
        /\ u.request[Me].pc = "sent" /\ u.request[Me].token = p /\ ~u.request[Me].kept
        /\ \A s \in Slots \ {Me} : u.request[s] = t.request[s]
    BY <1>0, <1>1, <1>2, <1>3
    DEF SameTokens, SameScreen, SameRequests, SamePlace, SameSigning, Tab
  <1>5. /\ t.ui.status \in {"signed-out", "unavailable"} /\ t.restoring = "no"
        /\ t.exchange.pc = "none" /\ ~t.leaving
        /\ \A s \in Reads : t.request[s].pc = "idle"
        /\ t.cache = {} /\ \A s \in Slots : ~t.request[s].kept
    BY DEF Whole, Shape, ExchangeFits, RequestsFit, RestoringFits, ScreenFits, LeavingFits
  <1>6. RequestsFit(u)
    BY <1>0, <1>4, <1>5 DEF RequestsFit, Slots, ConstantsOK
  <1>7. ExchangeFits(u) /\ AskingFits(u) /\ RestoringFits(u) /\ ScreenFits(u) /\ LeavingFits(u)
    BY <1>0, <1>4, <1>5 DEF ExchangeFits, AskingFits, RestoringFits, ScreenFits, LeavingFits
  <1>8. Placed(u)
    BY <1>4, <1>5 DEF Whole, Placed, SamePlace
  <1>9. Owned(P, E, u)
    BY <1>0, <1>4, <1>5 DEF Owned, Slots
  <1>10. QED
    BY <1>6, <1>7, <1>8, <1>9 DEF Whole, Shape

\* What the server says of a pair it has issued cannot be expired.
LEMMA FreshIsUnexpired ==
  ASSUME TypeInv, expired \subseteq Known, NEW p \in Fresh
  PROVE  p \in Pairs /\ p \notin expired
  BY DEF Fresh, Known

\* Between two attempts of an exchange the tab is as it was.
LEMMA WaitingIsWhole ==
  ASSUME NEW t, NEW u, Whole(t), t.exchange.pc # "none", NEW P, NEW E, Owned(P, E, t),
         u.exchange.pc # "none", u.exchange.token = t.exchange.token,
         SameTokens(t, u), SameScreen(t, u), SameRequests(t, u), SamePlace(t, u), SameSigning(t, u),
         u.leaving = t.leaving
  PROVE  Whole(u) /\ Owned(P, E, u)
  <1>1. Whole(u)
    BY DEF Whole, Shape, ExchangeFits, RequestsFit, AskingFits, RestoringFits, ScreenFits, LeavingFits,
       Placed, SameTokens, SameScreen, SameRequests, SamePlace, SameSigning
  <1>2. Owned(P, E, u)
    BY DEF Owned, SameTokens, SameScreen, SameRequests
  <1>3. QED
    BY <1>1, <1>2

\* A page that the browser keeps has nothing under way.
LEMMA CacheableIsAtRest ==
  ASSUME "timers" \notin Mishaps, NEW t \in Tab, Whole(t), Cacheable(t)
  PROVE  AtRest(t)
  <1>1. Me \in Slots /\ \A s \in Slots : t.request[s].pc \in {"idle", "sent", "waiting"}
    BY DEF Slots, Tab, Request
  <1>2. t.exchange.pc = "none"
    BY DEF Cacheable
  <1>3. \A s \in Slots : t.request[s].pc = "idle"
    BY <1>1, <1>2 DEF Cacheable, Whole, Shape, RequestsFit
  <1>4. t.signing = "no" /\ t.restoring = "no"
    BY <1>1, <1>2, <1>3 DEF Cacheable, Whole, Shape, AskingFits, RestoringFits, Tab
  <1>5. QED
    BY <1>2, <1>3, <1>4 DEF AtRest

\* And when it comes back, it goes on with nothing but the token that is parked.
LEMMA ReturnedIsReady ==
  ASSUME ConstantsOK, NEW f \in Tab, Whole(f), AtRest(f), NEW p \in Pairs \cup {NoToken}, NEW P, NEW E
  PROVE  LET t == [f EXCEPT !.access = NoToken, !.refresh = p]
             z == IF p # NoToken THEN StartRestore(Emptied(t))
                  ELSE IF HadSession(f) THEN Show(Emptied(t), SignedOut(TRUE)) ELSE t
         IN  z \in Tab /\ Ready(z) /\ Owned(P, E, z)
  <1> DEFINE t == [f EXCEPT !.access = NoToken, !.refresh = p]
             e == Emptied(t)
             y == Show(e, SignedOut(TRUE))
             z == IF p # NoToken THEN StartRestore(e) ELSE IF HadSession(f) THEN y ELSE t
  <1>0. Me \in Slots
    BY DEF Slots
  <1>1. /\ t \in Tab /\ t.access = NoToken /\ t.refresh = p
        /\ SameScreen(f, t) /\ SameRequests(f, t) /\ SamePlace(f, t) /\ SameSigning(f, t)
        /\ t.exchange = f.exchange /\ t.leaving = f.leaving
    BY DEF Tab, SameScreen, SameRequests, SamePlace, SameSigning
  <1> SUFFICES z \in Tab /\ Ready(z) /\ Owned(P, E, z)
    OBVIOUS
  <1> HIDE DEF t
  <1>2. /\ e \in Tab
        /\ RequestsEmptied(t, e)
        /\ SameTokens(t, e) /\ SameScreen(t, e) /\ SamePlace(t, e) /\ SameSigning(t, e)
        /\ e.exchange = t.exchange /\ e.leaving = t.leaving
    BY <1>1, EmptiedIs
  <1> HIDE DEF e
  <1>3. \A s \in Slots : e.request[s].pc = "idle" /\ ~e.request[s].kept
    <2>1. \A s \in Slots : t.request[s] \in Request /\ t.request[s].pc = "idle"
      BY <1>1 DEF Tab, AtRest, SameRequests
    <2>2. QED
      BY <1>2, <2>1 DEF RequestsEmptied, Request
  <1>4. /\ e.ui.status # "loading" /\ e.cache = {} /\ ~e.leaving /\ AtRest(e)
        /\ e.access = NoToken /\ e.refresh = p
        /\ e.left => e.atLogin /\ ~e.from
        /\ e.from => e.atLogin
    BY <1>1, <1>2, <1>3 DEF Whole, Shape, RestoringFits, LeavingFits, Placed, AtRest, RequestsEmptied,
       SameTokens, SameScreen, SamePlace, SameSigning
  <1>5. CASE p # NoToken
    <2>1. /\ StartRestore(e) \in Tab
          /\ Ready(StartRestore(e)) /\ Owned(P, E, StartRestore(e))
      BY <1>2, <1>3, <1>4, StartRestorePresents, RestoreIsReady
    <2>2. QED
      BY <1>5, <2>1
  <1>6. CASE p = NoToken /\ HadSession(f)
    <2>1. SignedOut(TRUE) \in AuthState /\ SignedOut(TRUE).status = "signed-out"
      BY ScreensAre DEF SignedOut
    <2>2. /\ y \in Tab /\ y.ui.status = "signed-out" /\ y.restoring = "no"
          /\ SameTokens(e, y) /\ SameRequests(e, y) /\ SamePlace(e, y) /\ SameSigning(e, y)
          /\ y.exchange = e.exchange /\ y.leaving = e.leaving
      BY <1>2, <2>1, ShowIs
    <2> HIDE DEF y
    <2>3. Shape(y) /\ LeavingFits(y)
      BY <1>0, <1>3, <1>4, <1>6, <2>2 DEF Shape, ExchangeFits, RequestsFit, AskingFits, RestoringFits,
         ScreenFits, LeavingFits, AtRest, SameTokens, SameRequests, SameSigning, Slots
    <2>4. Placeable(y)
      BY <1>4, <2>2 DEF Placeable, AtRest, SamePlace, SameSigning
    <2>5. Owned(P, E, y)
      BY <1>3, <2>2 DEF Owned, SameRequests
    <2>6. QED
      BY <1>6, <2>2, <2>3, <2>4, <2>5 DEF Ready
  <1>7. CASE p = NoToken /\ ~HadSession(f)
    <2>1. f.refresh = NoToken /\ t.refresh = NoToken /\ f.ui.status # "signed-in"
      BY <1>1, <1>7 DEF HadSession, Whole, Shape, ScreenFits
    <2>2. Shape(t) /\ LeavingFits(t)
      BY <1>1, <2>1 DEF Whole, Shape, ExchangeFits, RequestsFit, AskingFits, RestoringFits, ScreenFits,
         LeavingFits, AtRest, SameScreen, SameRequests, SameSigning
    <2>3. Placeable(t)
      BY <1>1 DEF Whole, Placed, Placeable, SamePlace, SameSigning
    <2>4. Owned(P, E, t)
      BY <1>1, <2>1 DEF Owned, AtRest, SameScreen, SameRequests
    <2>5. QED
      BY <1>1, <1>7, <2>2, <2>3, <2>4 DEF Ready
  <1>8. QED
    BY <1>5, <1>6, <1>7

\* A read is sent with the token of whoever is signed in.
LEMMA ReadIsWhole ==
  ASSUME ConstantsOK, NEW t \in Tab, Whole(t), t.ui.status = "signed-in", NEW s \in Reads,
         NEW P, NEW E, Owned(P, E, t)
  PROVE  LET u == Send(t, s, FALSE, TRUE)
         IN  Whole(u) /\ Owned(P, E, u)
  <1> DEFINE u == Send(t, s, FALSE, TRUE)
  <1>0. s \in Slots /\ Me \in Slots /\ s # Me
    BY DEF Slots, ConstantsOK
  <1>1. /\ u.request = [t.request EXCEPT ![s] = [pc |-> "sent", token |-> t.access,
                                                 retry |-> FALSE, kept |-> TRUE]]
        /\ u.cache = t.cache
        /\ SameTokens(t, u) /\ SameScreen(t, u) /\ SamePlace(t, u) /\ SameSigning(t, u)
        /\ u.exchange = t.exchange /\ u.leaving = t.leaving
    BY <1>0, SendIs
  <1> SUFFICES Whole(u) /\ Owned(P, E, u)
    OBVIOUS
  <1> HIDE DEF u
  <1>2. /\ u.request[s].pc = "sent" /\ u.request[s].token = t.access
        /\ ~u.request[s].retry /\ u.request[s].kept
        /\ \A o \in Slots \ {s} : u.request[o] = t.request[o]
    BY <1>0, <1>1 DEF Tab
  <1>3. RequestsFit(u)
    BY <1>0, <1>1, <1>2 DEF Whole, Shape, RequestsFit, SameScreen, SameSigning, Slots
  <1>4. ExchangeFits(u) /\ AskingFits(u) /\ RestoringFits(u) /\ ScreenFits(u) /\ LeavingFits(u)
    BY <1>0, <1>1, <1>2 DEF Whole, Shape, ExchangeFits, AskingFits, RestoringFits, ScreenFits,
       LeavingFits, SameTokens, SameScreen, SameSigning
  <1>5. Placed(u)
    BY <1>1 DEF Whole, Placed, SameScreen, SamePlace, SameSigning
  <1>6. OwnerIn(P, t.access) \in {t.ui.user, Nobody}
    BY DEF Whole, Shape, ScreenFits, Owned, OwnerIn
  <1>7. Owned(P, E, u)
    BY <1>0, <1>1, <1>2, <1>6 DEF Owned, SameTokens, SameScreen
  <1>8. QED
    BY <1>3, <1>4, <1>5, <1>7 DEF Whole, Shape

\* A read that was refused waits for the exchange, its own or another's.
LEMMA WaitsIsReady ==
  ASSUME ConstantsOK, NEW t \in Tab, Whole(t), NEW s \in Reads, t.request[s].pc = "sent", ~Refusable(t),
         NEW P, NEW E, Owned(P, E, t)
  PROVE  LET u == BeginExchange([t EXCEPT !.request[s].pc = "waiting"])
         IN  u \in Tab /\ Ready(u) /\ Owned(P, E, u)
  <1> DEFINE r == [t.request[s] EXCEPT !.pc = "waiting"]
             w == [t EXCEPT !.request[s].pc = "waiting"]
             u == BeginExchange(w)
  <1>0. s \in Slots /\ Me \in Slots /\ s # Me
    BY DEF Slots, ConstantsOK
  <1>1. /\ r \in Request /\ r.pc = "waiting" /\ r.token = t.request[s].token
        /\ r.retry = t.request[s].retry /\ r.kept = t.request[s].kept
    BY <1>0 DEF Tab, Request
  <1>2. w = [t EXCEPT !.request = [t.request EXCEPT ![s] = r]]
    BY <1>0 DEF Tab
  <1>3. /\ w \in Tab /\ w.request = [t.request EXCEPT ![s] = r] /\ w.cache = t.cache
        /\ SameTokens(t, w) /\ SameScreen(t, w) /\ SamePlace(t, w) /\ SameSigning(t, w)
        /\ w.exchange = t.exchange /\ w.leaving = t.leaving
    <2> HIDE DEF r, w
    <2>1. [t.request EXCEPT ![s] = r] \in [Slots -> Request]
      BY <1>0, <1>1 DEF Tab
    <2>2. QED
      BY <1>2, <2>1 DEF Tab, SameTokens, SameScreen, SamePlace, SameSigning
  <1> SUFFICES u \in Tab /\ Ready(u) /\ Owned(P, E, u)
    OBVIOUS
  <1> HIDE DEF r, w
  <1>4. /\ w.request[s] = r
        /\ \A o \in Slots \ {s} : w.request[o] = t.request[o]
    BY <1>0, <1>3 DEF Tab
  <1>5. t.ui.status = "signed-in" /\ t.refresh # NoToken
    BY <1>0 DEF Refusable, Whole, Shape, ExchangeFits, RequestsFit, ScreenFits
  <1>6. /\ u \in Tab
        /\ w.exchange.pc # "none" => u = w
        /\ w.exchange.pc = "none" => u.exchange.pc = "sent" /\ u.exchange.token = w.refresh
        /\ SameTokens(w, u) /\ SameScreen(w, u) /\ SameRequests(w, u) /\ SamePlace(w, u)
        /\ SameSigning(w, u) /\ u.leaving = w.leaving
    BY <1>3, BeginExchangeIs
  <1> HIDE DEF u
  <1>7. /\ u.exchange.pc # "none" /\ u.exchange.token = t.refresh
        /\ SameTokens(t, u) /\ SameScreen(t, u) /\ SamePlace(t, u) /\ SameSigning(t, u)
        /\ u.cache = t.cache /\ u.leaving = t.leaving /\ u.request[s] = r
        /\ \A o \in Slots \ {s} : u.request[o] = t.request[o]
    <2>1. w.exchange.pc # "none" => w.exchange.token = t.refresh
      BY <1>3 DEF Whole, Shape, ExchangeFits
    <2>2. QED
      BY <1>0, <1>3, <1>4, <1>6, <2>1
      DEF SameTokens, SameScreen, SameRequests, SamePlace, SameSigning
  <1>8. RequestsFit(u)
    BY <1>0, <1>1, <1>5, <1>7 DEF Whole, Shape, RequestsFit, SameScreen, SameSigning, Slots
  <1>9. ExchangeFits(u) /\ AskingFits(u) /\ RestoringFits(u) /\ ScreenFits(u) /\ LeavingFits(u)
    BY <1>0, <1>5, <1>7 DEF Whole, Shape, ExchangeFits, AskingFits, RestoringFits, ScreenFits,
       LeavingFits, SameTokens, SameScreen, SameSigning
  <1>10. Placeable(u)
    BY <1>7 DEF Whole, Placed, Placeable, SamePlace, SameSigning
  <1>11. Owned(P, E, u)
    BY <1>0, <1>1, <1>7 DEF Owned, SameTokens, SameScreen
  <1>12. QED
    BY <1>6, <1>8, <1>9, <1>10, <1>11 DEF Ready, Shape

\* No step leaves the tab holding, showing or waiting for what is another's.
LEMMA SessionStep ==
  ASSUME ConstantsOK, Mishaps \subseteq {"slow"}, SessionInv, [Next]_vars
  PROVE  SessionInv'
  <1>0. /\ TypeInv /\ TypeInv'
        /\ Fit(Known, tab) /\ tab \in Tab /\ Known \in SUBSET Pairs
        /\ frozen # Nobody => frozen \in Tab
        /\ parked \in Pairs \cup {NoToken}
        /\ expired \subseteq Known
        /\ open => parked = NoToken
        /\ Whole(tab) /\ Owned(pair, expired, tab)
        /\ frozen # Nobody => Whole(frozen) /\ AtRest(frozen)
    BY TypeStep DEF SessionInv, TypeInv, TypeOK, Known, Fit
  <1>a. ASSUME Whole(tab'), Owned(pair', expired', tab'), expired' \subseteq Known',
               open' => parked' = NoToken, frozen' # Nobody => Whole(frozen') /\ AtRest(frozen')
        PROVE  SessionInv'
    BY <1>0, <1>a DEF SessionInv
  <1>b. ASSUME Whole(tab'), Owned(pair, expired, tab'),
               UNCHANGED <<pair, expired, open, parked, frozen>>
        PROVE  SessionInv'
    BY <1>0, <1>a, <1>b DEF Known
  <1>c. ASSUME NEW t \in Tab, Ready(t), Owned(pair, expired, t), tab' = Render(t),
               UNCHANGED <<pair, expired, open, parked, frozen>>
        PROVE  SessionInv'
    BY <1>b, <1>c, DrawnIsWhole
  <1>d. ASSUME NEW t \in Tab, Extends, Ready(t), Owned(pair', expired', t), tab' = Render(t),
               UNCHANGED <<expired, open, parked, frozen>>
        PROVE  SessionInv'
    <2>1. Whole(tab') /\ Owned(pair', expired', tab')
      BY <1>d, DrawnIsWhole
    <2>2. expired' \subseteq Known'
      BY <1>0, <1>d DEF Extends
    <2>3. QED
      BY <1>0, <1>a, <1>d, <2>1, <2>2
  <1>1. ASSUME NEW p \in Pairs, SessionEnds(p) \/ GraceEnds(p) \/ Expire(p)
        PROVE  SessionInv'
    <2>1. UNCHANGED <<tab, open, parked, frozen>>
      BY <1>1 DEF SessionEnds, GraceEnds, Expire
    <2>2. CASE SessionEnds(p) \/ GraceEnds(p)
      <3>1. Extends /\ UNCHANGED expired
        BY <1>0, <2>2 DEF SessionEnds, GraceEnds, Extends, Known, TypeInv, TypeOK, PairState
      <3>2. Owned(pair', expired', tab)
        BY <1>0, <3>1, StillOwned
      <3>3. expired' \subseteq Known'
        BY <1>0, <3>1 DEF Extends
      <3>4. QED
        BY <1>0, <1>a, <2>1, <3>2, <3>3
    <2>3. CASE Expire(p)
      <3>1. ~JustIssued(p) /\ p \in Known /\ expired' = expired \cup {p} /\ UNCHANGED pair
        BY <2>3 DEF Expire, Known
      <3>2. Owned(pair', expired', tab)
        BY <1>0, <3>1 DEF Owned, JustIssued
      <3>3. expired' \subseteq Known'
        BY <1>0, <3>1 DEF Known
      <3>4. QED
        BY <1>0, <1>a, <2>1, <3>2, <3>3
    <2>4. QED
      BY <1>1, <2>2, <2>3
  <1>2. CASE RefreshAnswered
    <2> DEFINE r == tab.exchange.token
    <2>1. /\ r \in Known /\ tab.exchange.pc # "none" /\ r = tab.refresh
          /\ UNCHANGED <<expired, open, parked, frozen>>
      BY <1>0, <1>2 DEF RefreshAnswered, Fit, Whole, Shape, ExchangeFits
    <2>2. PICK answer \in Fresh \cup {NoToken} :
            /\ RefreshServed(r, answer)
            /\ tab' = Render(IF answer # NoToken THEN Settle(Store(tab, answer), "renewed")
                                                 ELSE Settle(Clear(tab), "refused"))
      BY <1>2 DEF RefreshAnswered, Draw
    <2>3. Extends /\ (answer # NoToken => answer \in Known' \ Known /\ pair'[answer].user = Owner(r))
      BY <1>0, <2>1, <2>2, ServedExtends
    <2>4. Owned(pair', expired', tab)
      BY <1>0, <2>1, <2>3, StillOwned
    <2>5. CASE answer # NoToken
      <3> DEFINE t == Settle(Store(tab, answer), "renewed")
      <3>1. answer \in Pairs /\ answer \notin expired'
        BY <1>0, <2>1, <2>2, <2>5, FreshIsUnexpired
      <3>2. OwnerIn(pair', answer) = OwnerIn(pair', tab.refresh)
        BY <1>0, <2>1, <2>3, <2>5 DEF OwnerIn, Owner, Extends
      <3>3. Store(tab, answer) \in Tab
        BY <1>0, <3>1, StoreIs
      <3>4. t \in Tab
        BY <3>3, SettleEnds DEF Outcomes
      <3>5. Ready(t) /\ Owned(pair', expired', t)
        BY <1>0, <2>1, <2>4, <3>1, <3>2, RenewedIsReady
      <3>6. tab' = Render(t)
        BY <2>2, <2>5
      <3> HIDE DEF t
      <3>7. QED
        BY <1>d, <2>1, <2>3, <3>4, <3>5, <3>6
    <2>6. CASE answer = NoToken
      <3> DEFINE t == Settle(Clear(tab), "refused")
      <3>1. Clear(tab) \in Tab
        BY <1>0, ClearIs
      <3>2. t \in Tab
        BY <3>1, SettleEnds DEF Outcomes
      <3>3. Ready(t) /\ Owned(pair', expired', t)
        BY <1>0, <2>1, <2>4, RefusedIsReady
      <3>4. tab' = Render(t)
        BY <2>2, <2>6
      <3> HIDE DEF t
      <3>5. QED
        BY <1>d, <2>1, <2>3, <3>2, <3>3, <3>4
    <2>7. QED
      BY <2>5, <2>6
  <1>3. CASE RefreshUnanswered
    <2> DEFINE r == tab.exchange.token
    <2>1. /\ r \in Known /\ tab.exchange.pc = "sent"
          /\ UNCHANGED <<expired, open, parked, frozen>>
      BY <1>0, <1>3 DEF RefreshUnanswered, Fit
    <2>2. Extends
      BY <1>0, <1>3, <2>1, LostExtends DEF RefreshUnanswered
    <2>3. Owned(pair', expired', tab)
      BY <1>0, <2>1, <2>2, StillOwned
    <2>4. CASE tab.exchange.attempt < Retries
      <3>1. tab' = [tab EXCEPT !.exchange.pc = "waiting"]
        BY <1>3, <2>4 DEF RefreshUnanswered
      <3>2. Whole(tab') /\ Owned(pair', expired', tab')
        <4>1. tab.exchange \in Exchange
          BY <1>0 DEF Tab
        <4>2. /\ tab'.exchange.pc = "waiting" /\ tab'.exchange.token = r
              /\ SameTokens(tab, tab') /\ SameScreen(tab, tab') /\ SameRequests(tab, tab')
              /\ SamePlace(tab, tab') /\ SameSigning(tab, tab') /\ tab'.leaving = tab.leaving
          BY <1>0, <3>1, <4>1
          DEF Tab, Exchange, SameTokens, SameScreen, SameRequests, SamePlace, SameSigning
        <4>3. QED
          BY <1>0, <2>1, <2>3, <4>2, WaitingIsWhole
      <3>3. expired' \subseteq Known'
        BY <1>0, <2>1, <2>2 DEF Extends
      <3>4. QED
        BY <1>0, <1>a, <2>1, <3>2, <3>3
    <2>5. CASE ~(tab.exchange.attempt < Retries)
      <3> DEFINE t == Settle(tab, "unavailable")
      <3>1. tab' = Render(t)
        BY <1>3, <2>5 DEF RefreshUnanswered, Draw
      <3>2. t \in Tab
        BY <1>0, SettleEnds DEF Outcomes
      <3>3. Ready(t) /\ Owned(pair', expired', t)
        BY <1>0, <2>1, <2>3, UnansweredIsReady
      <3> HIDE DEF t
      <3>4. QED
        BY <1>d, <2>1, <2>2, <3>1, <3>2, <3>3
    <2>6. QED
      BY <2>4, <2>5
  <1>4. CASE RefreshAgain
    <2>1. /\ tab' = [tab EXCEPT !.exchange.pc = "sent", !.exchange.attempt = @ + 1]
          /\ tab.exchange.pc = "waiting" /\ UNCHANGED <<pair, expired, open, parked, frozen>>
      BY <1>4 DEF RefreshAgain
    <2>2. tab.exchange \in Exchange
      BY <1>0 DEF Tab
    <2>3. /\ tab'.exchange.pc = "sent" /\ tab'.exchange.token = tab.exchange.token
          /\ SameTokens(tab, tab') /\ SameScreen(tab, tab') /\ SameRequests(tab, tab')
          /\ SamePlace(tab, tab') /\ SameSigning(tab, tab') /\ tab'.leaving = tab.leaving
      BY <1>0, <2>1, <2>2
      DEF Tab, Exchange, SameTokens, SameScreen, SameRequests, SamePlace, SameSigning
    <2>4. Whole(tab') /\ Owned(pair, expired, tab')
      BY <1>0, <2>1, <2>3, WaitingIsWhole
    <2>5. QED
      BY <1>b, <2>1, <2>4
  <1>5. CASE LoggedIn
    <2>1. PICK p \in Fresh : /\ pair' = Issued(p, tab.account)
                             /\ tab' = Send([Store(tab, p) EXCEPT !.signing = "me"], Me, FALSE, FALSE)
      BY <1>5 DEF LoggedIn
    <2>2. /\ tab.account \in Users /\ tab.signing = "login"
          /\ UNCHANGED <<expired, open, parked, frozen, alarms>>
      BY <1>0, <1>5 DEF LoggedIn, Fit
    <2>3. Extends
      <3>1. /\ p \in Pairs \ Known
            /\ pair' \in [Pairs -> [user : Users \cup {Nobody}, state : PairState]]
            /\ pair'[p].user = tab.account /\ pair'[p].state = "live"
            /\ \A q \in Pairs \ {p} : pair'[q] = pair[q]
        BY <1>0, <2>1, <2>2, IssuedIs
      <3>2. QED
        BY <1>0, <2>2, <3>1 DEF Extends, Known, TypeInv, TypeOK
    <2>4. Owned(pair', expired', tab) /\ p \in Pairs /\ p \notin expired'
      BY <1>0, <2>2, <2>3, StillOwned, FreshIsUnexpired
    <2>5. Whole(tab') /\ Owned(pair', expired', tab')
      BY <1>0, <2>1, <2>2, <2>4, LoggedInIsWhole
    <2>6. expired' \subseteq Known'
      BY <1>0, <2>2, <2>3 DEF Extends
    <2>7. QED
      BY <1>0, <1>a, <2>2, <2>5, <2>6
  <1>6. CASE LoginFails
    <2>1. /\ tab' = Signed(tab) /\ tab.signing = "login"
          /\ UNCHANGED <<pair, expired, open, parked, frozen>>
      BY <1>6 DEF LoginFails, Signed
    <2>2. /\ tab'.signing = "no"
          /\ SameTokens(tab, tab') /\ SameScreen(tab, tab') /\ SamePlace(tab, tab')
          /\ SameRequests(tab, tab')
          /\ tab'.exchange = tab.exchange /\ tab'.leaving = tab.leaving
      BY <1>0, <2>1, SignedIs
    <2>3. Whole(tab')
      BY <1>0, <2>1, <2>2 DEF Whole, Shape, ExchangeFits, RequestsFit, AskingFits, RestoringFits,
         ScreenFits, LeavingFits, Placed, SameTokens, SameScreen, SamePlace, SameRequests
    <2>4. Owned(pair, expired, tab')
      BY <1>0, <2>2 DEF Owned, SameTokens, SameScreen, SameRequests
    <2>5. QED
      BY <1>b, <2>1, <2>3, <2>4
  <1>7. ASSUME NEW s \in Reads, Read(s)
        PROVE  SessionInv'
    <2>1. /\ tab' = Send(tab, s, FALSE, TRUE) /\ tab.ui.status = "signed-in"
          /\ UNCHANGED <<pair, expired, open, parked, frozen>>
      BY <1>7 DEF Read
    <2>2. Whole(tab') /\ Owned(pair, expired, tab')
      BY <1>0, <2>1, ReadIsWhole
    <2>3. QED
      BY <1>b, <2>1, <2>2
  <1>8. CASE Retry
    <2>1. /\ tab' = Render(StartRestore(tab)) /\ UNCHANGED <<pair, expired, open, parked, frozen>>
          /\ tab.ui.status = "unavailable" /\ ~tab.atLogin /\ tab.request[Me].pc = "idle"
      BY <1>8 DEF Retry, Draw
    <2>2. /\ AtRest(tab) /\ ~tab.leaving /\ tab.cache = {} /\ \A s \in Slots : ~tab.request[s].kept
          /\ tab.access \in {tab.refresh, NoToken} /\ ~tab.left /\ ~tab.from
      BY <1>0, <2>1 DEF Whole, Shape, ExchangeFits, RequestsFit, RestoringFits, ScreenFits, LeavingFits,
         Placed, AtRest, Slots, Tab, Exchange
    <2>3. /\ StartRestore(tab) \in Tab
          /\ Ready(StartRestore(tab)) /\ Owned(pair, expired, StartRestore(tab))
      BY <1>0, <2>1, <2>2, StartRestorePresents, RestoreIsReady
    <2>4. QED
      BY <1>c, <2>1, <2>3
  <1>9. CASE SignOut
    <2>1. tab.ui.status = "signed-in" /\ UNCHANGED <<expired, open, parked, frozen>>
      BY <1>9 DEF SignOut
    <2>2. CASE tab.exchange.pc = "none"
      <3>1. LogoutServed(tab.refresh) /\ tab' = Render(Leave(tab))
        BY <1>9, <2>2 DEF SignOut, Draw
      <3>2. Extends
        BY <1>0, <3>1, LogoutExtends DEF Tab
      <3>3. Owned(pair', expired', tab)
        BY <1>0, <2>1, <3>2, StillOwned
      <3>4. Leave(tab) \in Tab /\ Ready(Leave(tab)) /\ Owned(pair', expired', Leave(tab))
        <4>1. tab.signing = "no" /\ tab.restoring = "no" /\ ~tab.from /\ Shape(tab)
          BY <1>0, <2>1 DEF Whole, Shape, RestoringFits, ScreenFits, Placed
        <4>2. QED
          BY <1>0, <2>2, <3>3, <4>1, LeaveIs, LeaveIsReady
      <3>5. QED
        BY <1>d, <2>1, <3>1, <3>2, <3>4
    <2>3. CASE tab.exchange.pc # "none"
      <3>1. tab' = [tab EXCEPT !.leaving = TRUE] /\ UNCHANGED pair
        BY <1>9, <2>3 DEF SignOut
      <3>2. /\ tab'.exchange = tab.exchange /\ SameTokens(tab, tab') /\ SameScreen(tab, tab')
            /\ SameRequests(tab, tab') /\ SamePlace(tab, tab') /\ SameSigning(tab, tab')
        BY <1>0, <3>1 DEF Tab, SameTokens, SameScreen, SameRequests, SamePlace, SameSigning
      <3>3. Whole(tab')
        BY <1>0, <2>1, <2>3, <3>2 DEF Whole, Shape, ExchangeFits, RequestsFit, AskingFits,
           RestoringFits, ScreenFits, LeavingFits, Placed, SameTokens, SameScreen, SamePlace,
           SameRequests, SameSigning
      <3>4. Owned(pair, expired, tab')
        BY <1>0, <3>2 DEF Owned, SameTokens, SameScreen, SameRequests
      <3>5. QED
        BY <1>b, <2>1, <3>1, <3>3, <3>4
    <2>4. QED
      BY <2>2, <2>3
  <1>10. ASSUME NEW u \in Users, SignIn(u)
         PROVE  SessionInv'
    <2>1. /\ tab' = [tab EXCEPT !.signing = "login", !.account = u]
          /\ UNCHANGED <<pair, expired, open, parked, frozen>>
          /\ tab.atLogin /\ tab.signing = "no" /\ tab.request[Me].pc = "idle"
          /\ tab.ui.status \in {"signed-out", "unavailable"}
          /\ \A s \in Reads : tab.request[s].pc = "idle"
      BY <1>10 DEF SignIn
    <2>2. /\ tab'.signing = "login" /\ tab'.exchange = tab.exchange /\ tab'.leaving = tab.leaving
          /\ SameTokens(tab, tab') /\ SameScreen(tab, tab')
          /\ SameRequests(tab, tab') /\ SamePlace(tab, tab')
      BY <1>0, <2>1 DEF Tab, SameTokens, SameScreen, SameRequests, SamePlace
    <2>3. Whole(tab')
      BY <1>0, <2>1, <2>2 DEF Whole, Shape, ExchangeFits, RequestsFit, AskingFits,
         RestoringFits, ScreenFits, LeavingFits, Placed, SameTokens, SameScreen, SamePlace, SameRequests
    <2>4. Owned(pair, expired, tab')
      BY <1>0, <2>2 DEF Owned, SameTokens, SameScreen, SameRequests
    <2>5. QED
      BY <1>b, <2>1, <2>3, <2>4
  <1>11. ASSUME NEW kept \in BOOLEAN, PageHide(kept)
         PROVE  SessionInv'
    <2>1. /\ open' = FALSE /\ tab' = Blank(NoToken, TRUE) /\ expired' = expired
          /\ frozen' = IF kept THEN tab ELSE frozen
          /\ kept => Cacheable(tab)
      BY <1>11 DEF PageHide
    <2>2. Extends
      <3>1. tab.exchange.pc # "none" => tab.exchange.token \in Known
        BY <1>0 DEF Fit
      <3>2. QED
        BY <1>0, <1>11, <3>1, LostExtends, UnchangedExtends DEF PageHide, Known
    <2>3. Whole(tab') /\ Owned(pair', expired', tab')
      BY <2>1, BlankIsReady
    <2>4. kept => AtRest(tab)
      BY <1>0, <2>1, CacheableIsAtRest
    <2>5. expired' \subseteq Known'
      BY <1>0, <2>1, <2>2 DEF Extends
    <2>6. frozen' # Nobody => Whole(frozen') /\ AtRest(frozen')
      BY <1>0, <2>1, <2>4
    <2>7. QED
      BY <1>a, <2>1, <2>3, <2>5, <2>6
  <1>12. ASSUME NEW login \in BOOLEAN, PageLoad(login)
         PROVE  SessionInv'
    <2>1. /\ parked' = NoToken /\ tab' = Render(Blank(parked, login))
          /\ UNCHANGED <<pair, expired, frozen>>
      BY <1>12 DEF PageLoad, Draw
    <2> DEFINE b == Blank(parked, login)
    <2>2. b \in Tab /\ Ready(b) /\ Owned(pair, expired, b)
      BY <1>0, BlankPresents, BlankIsReady
    <2> HIDE DEF b
    <2>3. Whole(Render(b)) /\ Owned(pair, expired, Render(b))
      BY <2>2, DrawnIsWhole
    <2>4. Whole(tab') /\ Owned(pair', expired', tab')
      BY <2>1, <2>3 DEF b
    <2>5. expired' \subseteq Known'
      BY <1>0, <2>1 DEF Known
    <2>6. QED
      BY <1>0, <1>a, <2>1, <2>4, <2>5
  <1>13. CASE PageShow
    <2> DEFINE t == [frozen EXCEPT !.access = NoToken, !.refresh = parked]
               e == Emptied(t)
               z == IF parked # NoToken THEN StartRestore(e)
                    ELSE IF HadSession(frozen) THEN Show(e, SignedOut(TRUE)) ELSE t
    <2>1. /\ frozen # Nobody /\ parked' = NoToken /\ frozen' = Nobody
          /\ UNCHANGED <<pair, expired>> /\ tab' = Render(z)
      BY <1>13 DEF PageShow, Draw
    <2>2. z \in Tab /\ Ready(z) /\ Owned(pair, expired, z)
      BY <1>0, <2>1, ReturnedIsReady
    <2> HIDE DEF z
    <2>3. Whole(tab') /\ Owned(pair', expired', tab')
      BY <2>1, <2>2, DrawnIsWhole
    <2>4. expired' \subseteq Known'
      BY <1>0, <2>1 DEF Known
    <2>5. QED
      BY <1>a, <2>1, <2>3, <2>4
  <1>14. ASSUME NEW s \in Slots, Answered(s)
         PROVE  SessionInv'
    <2>0. s = Me \/ s \in Reads
      BY DEF Slots
    <2>1. CASE RequestOk(s)
      <3> DEFINE who == Owner(tab.request[s].token)
      <3>1. who \in Users /\ OwnerIn(pair, tab.request[s].token) = who
        BY <1>0, <2>1, RequestOkIs, OwnersAre DEF Fit, OwnerIn, Owner
      <3>2. /\ tab.request[s].pc = "sent" /\ tab' = Render(Ok(tab, s, who))
            /\ UNCHANGED <<pair, expired, open, parked, frozen>>
        BY <2>1, RequestOkIs
      <3> HIDE DEF who
      <3>3. Ok(tab, s, who) \in Tab
        BY <1>0, <3>1, OkKeeps
      <3>4. CASE s = Me
        <4>1. Ready(Ok(tab, Me, who)) /\ Owned(pair, expired, Ok(tab, Me, who))
          BY <1>0, <3>1, <3>2, <3>4, KnownIsReady
        <4>2. QED
          BY <1>c, <3>2, <3>3, <3>4, <4>1
      <3>5. CASE s \in Reads
        <4>1. Ready(Ok(tab, s, who)) /\ Owned(pair, expired, Ok(tab, s, who))
          BY <1>0, <3>1, <3>5, CachedIsReady
        <4>2. QED
          BY <1>c, <3>2, <3>3, <4>1
      <3>6. QED
        BY <2>0, <3>4, <3>5
    <2>2. CASE RequestDenied(s)
      <3>1. /\ tab.request[s].pc = "sent"
            /\ tab.request[s].token = NoToken \/ tab.request[s].token \in expired
            /\ UNCHANGED <<pair, expired, open, parked, frozen>>
        BY <2>2 DEF RequestDenied
      <3>2. s \in Reads /\ s # Me /\ ~tab.request[s].retry
        BY <1>0, <2>0, <3>1 DEF Owned, Pairs, NoToken, ConstantsOK
      <3>3. CASE Refusable(tab)
        <4>1. tab' = Render(Reject(Clear(tab), s, TRUE))
          BY <2>2, <3>3 DEF RequestDenied, Draw
        <4>2. ~HadSession(tab)
          BY <1>0, <3>1, <3>2, <3>3 DEF Refusable, HadSession, Whole, Shape, RequestsFit, ScreenFits
        <4>3. tab' = Render(Done(tab, s))
          BY <3>2, <4>1, <4>2 DEF Clear, Reject, Done
        <4>4. Done(tab, s) \in Tab /\ Ready(Done(tab, s)) /\ Owned(pair, expired, Done(tab, s))
          BY <1>0, <3>2, DoneIs, DoneIsReady
        <4>5. QED
          BY <1>c, <3>1, <4>3, <4>4
      <3>4. CASE ~Refusable(tab)
        <4> DEFINE t == [tab EXCEPT !.request[s].pc = "waiting"]
        <4>1. tab' = Render(BeginExchange(t))
          BY <2>2, <3>2, <3>4 DEF RequestDenied, Draw
        <4>2. BeginExchange(t) \in Tab /\ Ready(BeginExchange(t)) /\ Owned(pair, expired, BeginExchange(t))
          BY <1>0, <3>1, <3>2, <3>4, WaitsIsReady
        <4> HIDE DEF t
        <4>3. QED
          BY <1>c, <3>1, <4>1, <4>2
      <3>5. QED
        BY <3>3, <3>4
    <2>3. CASE RequestFails(s)
      <3>1. /\ tab' = Render(Reject(tab, s, FALSE)) /\ tab.request[s].pc = "sent"
            /\ UNCHANGED <<pair, expired, open, parked, frozen>>
        BY <2>3 DEF RequestFails, Draw
      <3>2. Reject(tab, s, FALSE) \in Tab
        BY <1>0, RejectKeeps
      <3>3. CASE s = Me
        <4>1. Ready(Reject(tab, Me, FALSE)) /\ Owned(pair, expired, Reject(tab, Me, FALSE))
          BY <1>0, <3>1, <3>3, UnknownIsReady
        <4>2. QED
          BY <1>c, <3>1, <3>2, <3>3, <4>1
      <3>4. CASE s \in Reads
        <4>1. Reject(tab, s, FALSE) = Done(tab, s)
          BY <3>4 DEF Reject, Done, ConstantsOK
        <4>2. Ready(Done(tab, s)) /\ Owned(pair, expired, Done(tab, s))
          BY <1>0, <3>4, DoneIsReady
        <4>3. QED
          BY <1>c, <3>1, <3>2, <4>1, <4>2
      <3>5. QED
        BY <2>0, <3>3, <3>4
    <2>4. QED
      BY <1>14, <2>1, <2>2, <2>3 DEF Answered
  <1>15. CASE UNCHANGED vars
    BY <1>0, <1>15, <1>b DEF vars
  <1>16. QED
    BY <1>1, <1>2, <1>3, <1>4, <1>5, <1>6, <1>7, <1>8, <1>9, <1>10, <1>11, <1>12, <1>13, <1>14, <1>15
    DEF Next, Server, Refreshing, User, Navigation

\* The first page holds nothing and shows nobody.
LEMMA SessionInit == ASSUME ConstantsOK PROVE Init => SessionInv
  <1> SUFFICES ASSUME Init PROVE SessionInv
    OBVIOUS
  <1>1. TypeInv
    BY TypeInit
  <1>2. Whole(tab) /\ Owned(pair, expired, tab)
    BY BlankIsReady DEF Init
  <1>3. QED
    BY <1>1, <1>2 DEF Init, SessionInv

\* A tab that shows nobody signed in holds no token, but between the answer of a login and the
\* answer of the request that asks whose it is (client.ts, AuthProvider's listener and signIn).
THEOREM NoneSignedInHalfway ==
  ASSUME ConstantsOK, Mishaps \subseteq {"slow"}
  PROVE  Spec => []NoHalfSignIn
  <1>1. SessionInv => NoHalfSignIn
    BY DEF SessionInv, Whole, Shape, ScreenFits, NoHalfSignIn, HadSession
  <1>2. QED
    BY <1>1, SessionInit, SessionStep, PTL DEF Spec

\* What a tab holds, shows, parks and remembers is of whoever is on its screens: nobody's token,
\* cached data or last page is left to the next user (AuthProvider, session.ts, RequireAuth).
THEOREM NothingIsOthers ==
  ASSUME ConstantsOK, Mishaps \subseteq {"slow"}
  PROVE  Spec => []NothingOfOthers
  <1>1. SessionInv => NothingOfOthers
    BY DEF SessionInv, Whole, Shape, ScreenFits, Placed, Owned, OwnerIn, Owner, NothingOfOthers,
       TokensAreTheUsers, CacheIsTheUsers, ParkedOnlyBetweenPages, ButtonForgetsPlace
  <1>2. QED
    BY <1>1, SessionInit, SessionStep, PTL DEF Spec

\* An exchange presents the token the tab holds, and retrying it is not taken for a theft
\* (client.ts, refreshSession).
THEOREM SafeRefreshes ==
  ASSUME ConstantsOK, Mishaps = {}
  PROVE  Spec => []RefreshesAreSafe
  <1>1. Mishaps \subseteq {"slow"} /\ "slow" \notin Mishaps
    OBVIOUS
  <1>2. SessionInv => PresentsWhatItHolds
    BY DEF SessionInv, Whole, Shape, ExchangeFits, PresentsWhatItHolds
  <1>3. AlarmInv => NoFalseAlarm
    BY DEF AlarmInv
  <1>4. SessionInv /\ AlarmInv => RefreshesAreSafe
    BY <1>2, <1>3 DEF RefreshesAreSafe
  <1>5. Init => SessionInv /\ AlarmInv
    BY SessionInit, AlarmInit
  <1>6. SessionInv /\ AlarmInv /\ [Next]_vars => (SessionInv /\ AlarmInv)'
    BY <1>1, SessionStep, AlarmStep
  <1>7. QED
    BY <1>4, <1>5, <1>6, PTL DEF Spec
=============================================================================
