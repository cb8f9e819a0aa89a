---------------------------- MODULE ClientSession ----------------------------
(***************************************************************************)
(* One browser tab of the console and the session it keeps: the pair of    *)
(* tokens in memory (auth/session.ts), the exchange that renews it and the *)
(* requests that wait for it (api/client.ts), and who the screens say is   *)
(* signed in (auth/AuthProvider.tsx and its guards).  The server is what   *)
(* AuthSessions says of one user's tokens, seen from outside.              *)
(*                                                                         *)
(* A pair of tokens is a number, in the order of issue: its access token   *)
(* and its refresh token are told apart by the field they are held in.     *)
(* The tab is one record, because the browser's page cache keeps all of it *)
(* and may bring all of it back.                                           *)
(***************************************************************************)
EXTENDS Naturals, FiniteSets

CONSTANTS
  Users,
  Reads,         \* the requests the pages make
  MaxPairs,      \* bound on the pairs ever issued
  MaxPages,      \* bound on the pages that are hidden
  Retries,       \* the length of RETRY_DELAYS_MS
  Nobody,
  Mishaps        \* which of the rarer things that can happen do

\* slow: an attempt to refresh takes longer to fail than the grace period.  sleep: the machine
\* sleeps past an access token's life with a request under way.  timers: the page cache keeps
\* a page whose refresh is between two attempts.  early: the form of /login is sent while a
\* session is being restored behind it.  late: a read of the last user's is still
\* unanswered when somebody signs in.
AllMishaps == {"slow", "sleep", "timers", "early", "late"}

Pairs == 1 .. MaxPairs
NoToken == 0

\* The request that asks who is signed in, and those of the pages.
Me == "me"
Slots == Reads \cup {Me}

\* What an instance must give the constants.
ConstantsOK ==
  /\ MaxPairs \in Nat \ {0} /\ {Retries, MaxPages} \subseteq Nat
  /\ Nobody \notin Users /\ Me \notin Reads /\ Mishaps \subseteq AllMishaps

VARIABLES
  pair,       \* the server's record of each pair
  expired,    \* the pairs whose access token is refused
  tab,        \* everything the page that is open holds in memory
  open,       \* whether a page of the console is open in the tab
  parked,     \* sessionStorage["smarthire.refresh_token"]
  frozen,     \* the page in the back/forward cache
  hidden,     \* how many pages have been hidden
  abandoned,  \* refresh tokens whose exchange the tab gave up on, or was torn from
  alarms      \* refresh tokens the server has taken for stolen

vars == <<pair, expired, tab, open, parked, frozen, hidden, abandoned, alarms>>

-----------------------------------------------------------------------------
\* rotated: used within the grace period.  spent: used before it.
PairState == {"unused", "live", "rotated", "spent", "ended"}

Request == [ pc    : {"idle", "sent", "waiting"},
             token : Pairs \cup {NoToken},
             retry : BOOLEAN,
             kept  : BOOLEAN ]   \* the query it answers is still in the cache

Idle == [pc |-> "idle", token |-> NoToken, retry |-> FALSE, kept |-> FALSE]

\* refreshing, and the attempt that refreshSession is in.
Exchange == [ pc      : {"none", "sent", "waiting"},
              token   : Pairs \cup {NoToken},
              attempt : 0 .. Retries ]

NoExchange == [pc |-> "none", token |-> NoToken, attempt |-> 0]

AuthState == [ status    : {"loading", "unavailable", "signed-out", "signed-in"},
               user      : Users \cup {Nobody},
               keepPlace : BOOLEAN ]

Loading == [status |-> "loading", user |-> Nobody, keepPlace |-> TRUE]
Unavailable == [status |-> "unavailable", user |-> Nobody, keepPlace |-> TRUE]
SignedOut(keepPlace) == [status |-> "signed-out", user |-> Nobody, keepPlace |-> keepPlace]
SignedIn(u) == [status |-> "signed-in", user |-> u, keepPlace |-> TRUE]

Tab == [ access    : Pairs \cup {NoToken},
         refresh   : Pairs \cup {NoToken},
         ui        : AuthState,
         atLogin   : BOOLEAN,         \* the route is /login
         from      : BOOLEAN,         \* and signing in leads back to the page it was reached from
         left      : BOOLEAN,         \* the last user left by the button
         cache     : SUBSET Users,    \* whose data the query cache holds
         exchange  : Exchange,
         request   : [Slots -> Request],
         restoring : {"no", "refreshing", "me"},   \* the effect of "loading", while not cancelled
         signing   : {"no", "login", "me"},        \* signIn
         account   : Users \cup {Nobody},          \* whom signIn signs in
         leaving   : BOOLEAN ]                     \* signOut awaits refreshInFlight

TypeOK ==
  /\ pair \in [Pairs -> [user : Users \cup {Nobody}, state : PairState]]
  /\ expired \subseteq Pairs
  /\ tab \in Tab
  /\ open \in BOOLEAN
  /\ parked \in Pairs \cup {NoToken}
  /\ frozen \in Tab \cup {Nobody}
  /\ hidden \in 0 .. MaxPages
  /\ abandoned \subseteq Pairs
  /\ alarms \subseteq Pairs

Owner(p) == IF p = NoToken THEN Nobody ELSE pair[p].user
-----------------------------------------------------------------------------
(* What the calls do to the tab, as functions of its record.               *)

\* queryClient.clear(): a fetch under way answers a query that is no longer there.
Emptied(t) == [t EXCEPT !.cache = {}, !.request = [s \in Slots |-> [@[s] EXCEPT !.kept = FALSE]]]

\* setState.  Leaving "loading" cancels the effect that was restoring the session.
Show(t, ui) ==
  [t EXCEPT !.ui = ui, !.restoring = IF ui.status = "loading" THEN @ ELSE "no"]

\* What is drawn when the event's code has run: RequireAuth sends nobody to /login, and
\* /login sends whoever is signed in away.
Render(t) ==
  CASE t.ui.status = "signed-out" /\ ~t.atLogin -> [t EXCEPT !.atLogin = TRUE, !.from = t.ui.keepPlace]
    [] t.ui.status = "signed-in"  /\ t.atLogin  -> [t EXCEPT !.atLogin = FALSE, !.from = FALSE, !.left = FALSE]
    [] OTHER -> t

Draw(t) == tab' = Render(t)

Forget(t) == [t EXCEPT !.access = NoToken, !.refresh = NoToken]

HadSession(t) == t.access # NoToken \/ t.refresh # NoToken

\* session.clear(), with AuthProvider's listener.
Clear(t) == IF HadSession(t) THEN Show(Emptied(Forget(t)), SignedOut(TRUE)) ELSE t

Store(t, p) == [t EXCEPT !.access = p, !.refresh = p]

Send(t, s, retry, kept) ==
  [t EXCEPT !.request[s] = [pc |-> "sent", token |-> t.access, retry |-> retry, kept |-> kept]]

\* refreshSession(): the exchange under way is joined.  Without a token there is none to begin.
BeginExchange(t) ==
  IF t.exchange.pc # "none" THEN t
  ELSE [t EXCEPT !.exchange = [NoExchange EXCEPT !.pc = "sent", !.token = t.refresh]]

Refusable(t) == t.exchange.pc = "none" /\ t.refresh = NoToken

\* The promise of request s is rejected.  "me" is awaited by the restoring effect or by signIn.
Reject(t, s, unauthorized) ==
  LET u == [t EXCEPT !.request[s] = Idle]
  IN  IF s # Me THEN u
      ELSE IF t.signing = "me" THEN [Clear(u) EXCEPT !.signing = "no", !.account = Nobody]
      ELSE IF t.restoring = "me" THEN Show(u, IF unauthorized THEN SignedOut(TRUE) ELSE Unavailable)
      ELSE u

\* The effect of "loading", when refreshSession has answered.
RestoreRefreshed(t, outcome) ==
  IF t.restoring # "refreshing" THEN t
  ELSE CASE outcome = "renewed"     -> Send([t EXCEPT !.restoring = "me"], Me, FALSE, FALSE)
         [] outcome = "refused"     -> Show(t, SignedOut(TRUE))
         [] outcome = "unavailable" -> Show(t, Unavailable)

\* The effect of "loading" runs when the status becomes it.
StartRestore(t) ==
  LET u == [Show(t, Loading) EXCEPT !.restoring = "refreshing"]
  IN  IF t.ui.status = "loading" THEN t
      ELSE IF Refusable(u) THEN RestoreRefreshed(u, "refused") ELSE BeginExchange(u)

\* Mutation: the listener's state is left as it is.
LeavePlace(t) == [Clear(t) EXCEPT !.leaving = FALSE, !.left = TRUE]

\* signOut, past its await.
Leave(t) ==
  [Show(Emptied(Clear(t)), SignedOut(FALSE)) EXCEPT !.leaving = FALSE, !.left = TRUE]

\* The exchange has settled: those that wait for it go on, in the same turn of the event loop.
Settle(t, outcome) ==
  LET waiting == {s \in Slots : t.request[s].pc = "waiting"}
      u == [t EXCEPT !.exchange = NoExchange,
              !.request = [s \in Slots |->
                 IF s \notin waiting THEN @[s]
                 ELSE IF outcome = "renewed"
                        THEN [@[s] EXCEPT !.pc = "sent", !.token = t.access, !.retry = TRUE]
                        ELSE Idle]]
      v == RestoreRefreshed(u, outcome)
      w == IF Me \in waiting /\ outcome # "renewed" THEN Reject(v, Me, TRUE) ELSE v
  IN  IF t.leaving THEN Leave(w) ELSE w
-----------------------------------------------------------------------------
(* The server, as far as a tab can see it.                                 *)

Fresh == {p \in Pairs : pair[p].state = "unused" /\ \A q \in 1 .. p - 1 : pair[q].state # "unused"}

Issued(p, u) == [pair EXCEPT ![p] = [user |-> u, state |-> "live"]]

\* A rotated token presented after the grace period: every session of the user ends.
EndEverySession(u) ==
  [p \in Pairs |-> IF pair[p].user = u THEN [pair[p] EXCEPT !.state = "ended"] ELSE pair[p]]

\* POST /auth/refresh with token t: the pair it is answered with, or NoToken for a 401.
\* When the server does it, between the sending and what comes of it, the tab cannot tell.
RefreshServed(t, answer) ==
  \/ /\ pair[t].state = "live"
     /\ answer \in Fresh
     /\ pair' = [Issued(answer, Owner(t)) EXCEPT ![t].state = "rotated"]
     /\ UNCHANGED alarms
  \/ /\ pair[t].state \in {"rotated", "ended"}
     /\ answer = NoToken
     /\ UNCHANGED <<pair, alarms>>
  \/ /\ pair[t].state = "spent"
     /\ answer = NoToken
     /\ pair' = EndEverySession(Owner(t))
     /\ alarms' = alarms \cup {t}

\* Nothing came back: it may have been served all the same.
RefreshLost(t) ==
  \/ UNCHANGED <<pair, alarms>>
  \/ \E answer \in Fresh \cup {NoToken} : RefreshServed(t, answer)

\* POST /auth/logout, sent in the background: it may never arrive.
LogoutServed(t) ==
  \/ UNCHANGED <<pair, alarms>>
  \/ /\ t # NoToken /\ pair[t].state = "live"
     /\ pair' = [pair EXCEPT ![t].state = "ended"]
     /\ UNCHANGED alarms
  \/ /\ t # NoToken /\ pair[t].state = "spent"
     /\ pair' = EndEverySession(Owner(t))
     /\ alarms' = alarms \cup {t}

\* The refresh tokens the tab may yet present: the rest of them no longer matter to it.
Held == {tab.refresh, tab.exchange.token, parked} \cup IF frozen = Nobody THEN {} ELSE {frozen.refresh}

\* The session ends elsewhere: it lapses, or the user's account does.
SessionEnds(p) ==
  /\ pair[p].state = "live" /\ p \in Held
  /\ pair' = [pair EXCEPT ![p].state = "ended"]
  /\ UNCHANGED <<expired, tab, open, parked, frozen, hidden, abandoned, alarms>>

\* The delays between attempts are well inside the grace period; an attempt itself has no limit.
GraceEnds(p) ==
  /\ pair[p].state = "rotated" /\ p \in Held
  /\ "slow" \in Mishaps \/ ~(open /\ tab.exchange.pc # "none" /\ tab.exchange.token = p)
  /\ pair' = [pair EXCEPT ![p].state = "spent"]
  /\ UNCHANGED <<expired, tab, open, parked, frozen, hidden, abandoned, alarms>>

\* The first request sent with the pair is under way.
JustIssued(p) ==
  \E s \in Slots : /\ tab.request[s].pc = "sent" /\ tab.request[s].token = p
                   /\ s = Me \/ tab.request[s].retry

\* An access token lasts for minutes: its first request is answered before.
Expire(p) ==
  /\ pair[p].state # "unused" /\ p \notin expired
  /\ p = tab.access \/ \E s \in Slots : tab.request[s].token = p
  /\ "sleep" \in Mishaps \/ ~JustIssued(p)
  /\ expired' = expired \cup {p}
  /\ UNCHANGED <<pair, tab, open, parked, frozen, hidden, abandoned, alarms>>

-----------------------------------------------------------------------------
(* The exchange of the refresh token.                                      *)

\* attemptRefresh: the server is asked, and its answer arrives.
RefreshAnswered ==
  /\ open
  /\ tab.exchange.pc = "sent"
  /\ \E answer \in Fresh \cup {NoToken} :
       /\ RefreshServed(tab.exchange.token, answer)
       /\ Draw(IF answer # NoToken THEN Settle(Store(tab, answer), "renewed")
                                   ELSE Settle(Clear(tab), "refused"))
  /\ UNCHANGED <<expired, open, parked, frozen, hidden, abandoned>>

\* Mutation: one attempt more than there are delays.
RefreshUnansweredOnceMore ==
  /\ open
  /\ tab.exchange.pc = "sent"
  /\ RefreshLost(tab.exchange.token)
  /\ tab' = [tab EXCEPT !.exchange.pc = "waiting"]
  /\ UNCHANGED <<expired, open, parked, frozen, hidden, abandoned>>

\* A 502, no network, or a body cut short.
RefreshUnanswered ==
  /\ open
  /\ tab.exchange.pc = "sent"
  /\ RefreshLost(tab.exchange.token)
  /\ IF tab.exchange.attempt < Retries
       THEN tab' = [tab EXCEPT !.exchange.pc = "waiting"] /\ UNCHANGED abandoned
       ELSE /\ Draw(Settle(tab, "unavailable"))
            /\ abandoned' = abandoned \cup {tab.exchange.token}
  /\ UNCHANGED <<expired, open, parked, frozen, hidden>>

\* The delay is over: the same token is presented again.
RefreshAgain ==
  /\ open
  /\ tab.exchange.pc = "waiting"
  /\ tab' = [tab EXCEPT !.exchange.pc = "sent", !.exchange.attempt = @ + 1]
  /\ UNCHANGED <<pair, expired, open, parked, frozen, hidden, abandoned, alarms>>

-----------------------------------------------------------------------------
(* Requests.                                                               *)

\* A page asks for something of its user's.
Read(s) ==
  /\ open
  /\ tab.ui.status = "signed-in" /\ tab.request[s].pc = "idle"
  /\ tab' = Send(tab, s, FALSE, TRUE)
  /\ UNCHANGED <<pair, expired, open, parked, frozen, hidden, abandoned, alarms>>

\* A good answer: me() completes the restoring or the sign-in, a read fills the cache.
RequestOk(s) ==
  /\ open
  /\ tab.request[s].pc = "sent" /\ tab.request[s].token # NoToken
  /\ LET who == Owner(tab.request[s].token)
         done == [tab EXCEPT !.request[s] = Idle]
     IN  Draw(IF s # Me
                THEN IF tab.request[s].kept THEN [done EXCEPT !.cache = @ \cup {who}] ELSE done
              ELSE IF tab.signing = "me"
                THEN Show(Emptied([done EXCEPT !.signing = "no", !.account = Nobody]), SignedIn(who))
              ELSE IF tab.restoring = "me" THEN Show(done, SignedIn(who))
              ELSE done)
  /\ UNCHANGED <<pair, expired, open, parked, frozen, hidden, abandoned, alarms>>

\* A 401: renew, or join who is renewing.  Refused with a fresh token, or nothing to renew with.
RequestDenied(s) ==
  /\ open
  /\ tab.request[s].pc = "sent"
  /\ tab.request[s].token = NoToken \/ tab.request[s].token \in expired
  /\ Draw(IF tab.request[s].retry \/ Refusable(tab) THEN Reject(Clear(tab), s, TRUE)
          ELSE BeginExchange([tab EXCEPT !.request[s].pc = "waiting"]))
  /\ UNCHANGED <<pair, expired, open, parked, frozen, hidden, abandoned, alarms>>

\* No answer, or any other error: the caller is told.
RequestFails(s) ==
  /\ open
  /\ tab.request[s].pc = "sent"
  /\ Draw(Reject(tab, s, FALSE))
  /\ UNCHANGED <<pair, expired, open, parked, frozen, hidden, abandoned, alarms>>

-----------------------------------------------------------------------------
(* The user at the screens.                                                *)

\* "Try again" under "The API is not answering".
Retry ==
  /\ open
  /\ tab.ui.status = "unavailable" /\ ~tab.atLogin /\ tab.request[Me].pc = "idle"
  /\ Draw(StartRestore(tab))
  /\ UNCHANGED <<pair, expired, open, parked, frozen, hidden, abandoned, alarms>>

\* The form of /login, which does not ask whether a session is being restored.
SignIn(u) ==
  /\ open
  /\ tab.atLogin /\ tab.signing = "no" /\ tab.request[Me].pc = "idle"
  /\ \/ tab.ui.status \in {"signed-out", "unavailable"}
     \/ "early" \in Mishaps /\ tab.ui.status = "loading"
  /\ "late" \in Mishaps \/ \A s \in Reads : tab.request[s].pc = "idle"
  /\ tab' = [tab EXCEPT !.signing = "login", !.account = u]
  /\ UNCHANGED <<pair, expired, open, parked, frozen, hidden, abandoned, alarms>>

\* POST /auth/login is answered with a pair; who it belongs to is asked next.
LoggedIn ==
  /\ open
  /\ tab.signing = "login"
  /\ \E p \in Fresh :
       /\ pair' = Issued(p, tab.account)
       /\ tab' = Send([Store(tab, p) EXCEPT !.signing = "me"], Me, FALSE, FALSE)
  /\ UNCHANGED <<expired, open, parked, frozen, hidden, abandoned, alarms>>

LoginFails ==
  /\ open
  /\ tab.signing = "login"
  /\ tab' = [tab EXCEPT !.signing = "no", !.account = Nobody]
  /\ UNCHANGED <<pair, expired, open, parked, frozen, hidden, abandoned, alarms>>

\* Mutation: the exchange under way is not awaited.
SignOutAtOnce ==
  /\ open
  /\ tab.ui.status = "signed-in"
  /\ LogoutServed(tab.refresh) /\ Draw(Leave(tab))
  /\ UNCHANGED <<expired, open, parked, frozen, hidden, abandoned>>

\* The button: a refresh under way lands first.  What it stores is then what is revoked.
SignOut ==
  /\ open
  /\ tab.ui.status = "signed-in"
  /\ IF tab.exchange.pc = "none"
       THEN LogoutServed(tab.refresh) /\ Draw(Leave(tab))
       ELSE ~tab.leaving /\ tab' = [tab EXCEPT !.leaving = TRUE] /\ UNCHANGED <<pair, alarms>>
  /\ UNCHANGED <<expired, open, parked, frozen, hidden, abandoned>>

-----------------------------------------------------------------------------
(* Pages come and go.                                                      *)

\* A page just loaded, with what was parked for it.
Blank(token, login) ==
  LET t == [ access |-> NoToken, refresh |-> token, ui |-> SignedOut(TRUE), atLogin |-> login,
             from |-> FALSE, left |-> FALSE,
             cache |-> {}, exchange |-> NoExchange, request |-> [s \in Slots |-> Idle],
             restoring |-> "no", signing |-> "no", account |-> Nobody, leaving |-> FALSE ]
  IN  IF token = NoToken THEN t ELSE StartRestore(t)

\* No page with a fetch under way enters the back/forward cache.
Cacheable(t) ==
  /\ \A s \in Slots : t.request[s].pc # "sent"
  /\ t.signing # "login"
  /\ t.exchange.pc = "none" \/ ("timers" \in Mishaps /\ t.exchange.pc = "waiting")

\* pagehide: a reload, a link out, another page of the console's history.
PageHide(kept) ==
  /\ open
  /\ kept => Cacheable(tab)
  /\ hidden < MaxPages
  /\ hidden' = hidden + 1
  /\ open' = FALSE
  /\ parked' = IF tab.refresh # NoToken THEN tab.refresh ELSE parked
  /\ frozen' = IF kept THEN tab ELSE frozen
  /\ tab' = Blank(NoToken, TRUE)
  /\ abandoned' = IF tab.exchange.pc # "none" THEN abandoned \cup {tab.exchange.token}
                                              ELSE abandoned
  /\ IF tab.exchange.pc = "sent" THEN RefreshLost(tab.exchange.token) ELSE UNCHANGED <<pair, alarms>>
  /\ UNCHANGED expired

\* Mutation: the token that was parked stays in storage.
PageLoadCopies(login) ==
  /\ ~open
  /\ open' = TRUE
  /\ Draw(Blank(parked, login))
  /\ UNCHANGED <<pair, expired, parked, frozen, hidden, abandoned, alarms>>

\* The modules are evaluated again: the parked token is taken, and a session restored from it.
PageLoad(login) ==
  /\ ~open
  /\ open' = TRUE
  /\ parked' = NoToken
  /\ Draw(Blank(parked, login))
  /\ UNCHANGED <<pair, expired, frozen, hidden, abandoned, alarms>>

\* Mutation: the page goes on with the session it was hidden with.
PageShowAsItWas ==
  /\ ~open /\ frozen # Nobody
  /\ open' = TRUE
  /\ parked' = NoToken
  /\ frozen' = Nobody
  /\ Draw(frozen)
  /\ UNCHANGED <<pair, expired, hidden, abandoned, alarms>>

\* Mutation: the parked token is taken to be that of the user on the screen.
PageShowTrusting ==
  /\ ~open /\ frozen # Nobody
  /\ open' = TRUE
  /\ parked' = NoToken
  /\ frozen' = Nobody
  /\ LET t == [frozen EXCEPT !.access = NoToken, !.refresh = parked]
     IN  Draw(IF parked = NoToken /\ HadSession(frozen) THEN Show(Emptied(t), SignedOut(TRUE)) ELSE t)
  /\ UNCHANGED <<pair, expired, hidden, abandoned, alarms>>

\* Mutation: the page's cache survives its return.
PageShowWithCache ==
  /\ ~open /\ frozen # Nobody
  /\ open' = TRUE
  /\ parked' = NoToken
  /\ frozen' = Nobody
  /\ LET t == [frozen EXCEPT !.access = NoToken, !.refresh = parked]
     IN  Draw(IF parked # NoToken THEN StartRestore(t)
              ELSE IF HadSession(frozen) THEN Show(Emptied(t), SignedOut(TRUE)) ELSE t)
  /\ UNCHANGED <<pair, expired, hidden, abandoned, alarms>>

\* pageshow, persisted: only the parked token counts, and it may be someone else's.
PageShow ==
  /\ ~open /\ frozen # Nobody
  /\ open' = TRUE
  /\ parked' = NoToken
  /\ frozen' = Nobody
  /\ LET t == [frozen EXCEPT !.access = NoToken, !.refresh = parked]
     IN  Draw(IF parked # NoToken THEN StartRestore(Emptied(t))
              ELSE IF HadSession(frozen) THEN Show(Emptied(t), SignedOut(TRUE)) ELSE t)
  /\ UNCHANGED <<pair, expired, hidden, abandoned, alarms>>

-----------------------------------------------------------------------------
Init ==
  /\ pair = [p \in Pairs |-> [user |-> Nobody, state |-> "unused"]]
  /\ expired = {}
  /\ open = TRUE
  /\ parked = NoToken
  /\ frozen = Nobody
  /\ hidden = 0
  /\ tab = Blank(NoToken, TRUE)
  /\ abandoned = {}
  /\ alarms = {}

Server == \E p \in Pairs : SessionEnds(p) \/ GraceEnds(p) \/ Expire(p)

Refreshing == RefreshAnswered \/ RefreshUnanswered \/ RefreshAgain

Answered(s) == RequestOk(s) \/ RequestDenied(s) \/ RequestFails(s)

User ==
  \/ \E s \in Reads : Read(s)
  \/ Retry \/ SignOut
  \/ \E u \in Users : SignIn(u)

Navigation ==
  \/ \E kept \in BOOLEAN : PageHide(kept)
  \/ \E login \in BOOLEAN : PageLoad(login)
  \/ PageShow

Next ==
  \/ Server \/ Refreshing \/ LoggedIn \/ LoginFails \/ User \/ Navigation
  \/ \E s \in Slots : Answered(s)

Spec == Init /\ [][Next]_vars

-----------------------------------------------------------------------------
\* Whoever the screens say is signed in is whom the tokens belong to: no answer that was
\* on its way when the user changed is stored over the new one's.
TokensAreTheUsers ==
  open /\ tab.ui.status = "signed-in" =>
    Owner(tab.refresh) = tab.ui.user /\ Owner(tab.access) \in {tab.ui.user, Nobody}

\* A tab that shows nobody signed in holds no token: no exchange stores a pair after a
\* sign-out, and a sign-in that fails leaves nothing behind.
NoHalfSignIn == open /\ tab.ui.status = "signed-out" /\ tab.signing # "me" => ~HadSession(tab)

\* Nobody's screens are fed from what was fetched as somebody else.
CacheIsTheUsers == open /\ tab.ui.status = "signed-in" => tab.cache \subseteq {tab.ui.user}

\* The server takes none of the tab's tokens for stolen, unless no attempt of an exchange
\* was answered or the page went away in the middle of one.
NoFalseAlarm == alarms \subseteq abandoned

\* Storage holds the token only between two pages: a tab duplicated while one is open
\* cannot take it along.
ParkedOnlyBetweenPages == open => parked = NoToken

\* After the button, whoever signs in next is not sent to the last user's page: neither by
\* a refusal that signs the user out while the button waits, nor by what arrives afterwards.
ButtonForgetsPlace == open /\ tab.left => ~tab.from

\* The token an exchange presents is the one the tab holds: not one it has signed out of, nor
\* what a page kept from before it was hidden.
PresentsWhatItHolds == open /\ tab.exchange.pc = "sent" => tab.exchange.token = tab.refresh

\* What a tab holds, shows, parks and remembers is of whoever is on its screens: a user who has
\* gone leaves nothing to the next.
NothingOfOthers == TokensAreTheUsers /\ CacheIsTheUsers /\ ParkedOnlyBetweenPages /\ ButtonForgetsPlace

\* A refresh presents what the tab holds, and retrying it is not taken for a theft.
RefreshesAreSafe == PresentsWhatItHolds /\ NoFalseAlarm
=============================================================================
