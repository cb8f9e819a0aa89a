-------------------------- MODULE AuthSessionsProofs --------------------------
(***************************************************************************)
(* Theorems about AuthSessions, for every number of requests and tokens:   *)
(* a session has one live token, and once ended it stays ended.            *)
(*                                                                         *)
(* Both rest on who holds which row lock between the statements of a       *)
(* transaction.  A request that has found its token holds that row until   *)
(* it commits, so the token it rotates is still live when it issues the    *)
(* next; and the user's lock keeps every other refresh from issuing one    *)
(* between the snapshot of a DELETE and its end.                           *)
(***************************************************************************)
EXTENDS AuthSessions, FiniteSetTheorems, TLAPS

-----------------------------------------------------------------------------
(* The inductive invariant.                                                *)

Holding == {"rotating", "issuing", "ending", "deleting"}

\* What was presented is a token, and was issued.
Presented ==
  \A r \in Requests : request[r].pc \in Waiting => request[r].token \in Tokens /\ Mine(r).state # "unused"

TypeInv == TypeOK /\ Presented

\* A request that has found its token holds the token's row.
TokenHeld == \A r \in Requests : request[r].pc \in Holding => tokenLock[request[r].token] = r

\* The user's row is held from the lock on it to the end of the transaction, and by nobody else.
UserHeld == \A r \in Requests : request[r].pc \in {"issuing", "deleting"} <=> userLock = r

\* The token that a refresh is about to rotate is live, whatever the others do meanwhile.
RotatesLive == \A r \in Requests : request[r].pc \in {"rotating", "issuing"} => Mine(r).state = "live"

\* A session is named after the sign-in it began with.
SessionsBegan ==
  \A t \in Tokens : token[t].session \in Requests => request[token[t].session].pc # "idle"

\* What a DELETE has in its snapshot is whole sessions: no live token is missing from it.
SeenIsWhole ==
  \A r \in Requests : request[r].pc = "deleting" =>
    \A t \in request[r].seen, u \in Tokens :
      token[u].state = "live" /\ token[u].session = token[t].session => u \in request[r].seen

\* No two live tokens are of one session.
LiveAlone ==
  \A t, u \in Tokens :
    token[t].state = "live" /\ token[u].state = "live" /\ token[t].session = token[u].session => t = u

\* What has been revoked was replaced, unless the session was ended.
Replaced ==
  \A t \in Rows : \E u \in Tokens :
    token[u].session = token[t].session /\ token[u].state \in {"live", "deleted"}

\* A session with a deleted token has no live one.
Ended ==
  \A t, u \in Tokens :
    token[t].state = "deleted" /\ token[u].session = token[t].session => token[u].state # "live"

Locked == TokenHeld /\ UserHeld /\ RotatesLive /\ SessionsBegan
Sessions == SeenIsWhole /\ LiveAlone /\ Replaced /\ Ended

IInv == TypeInv /\ Locked /\ Sessions
-----------------------------------------------------------------------------
(* Types.                                                                  *)

\* Moving a request on changes nothing but where it is.
LEMMA GotoStep ==
  ASSUME TypeOK, NEW r \in Requests, NEW pc \in {"idle"} \cup Waiting \cup Answer, Goto(r, pc)
  PROVE  /\ request' \in [Requests -> Request]
         /\ \A q \in Requests :
              /\ request'[q].pc = IF q = r THEN pc ELSE request[q].pc
              /\ request'[q].token = request[q].token
              /\ request'[q].seen = request[q].seen
  <1>1. [request[r] EXCEPT !.pc = pc] \in Request
    BY DEF TypeOK, Request
  <1>2. QED
    BY <1>1 DEF TypeOK, Goto, Request

\* The end of a transaction answers the request and leaves the other locks to whoever has them.
LEMMA EndTransactionStep ==
  ASSUME TypeOK, NEW r \in Requests, NEW answer \in Answer, EndTransaction(r, answer)
  PROVE  /\ request' \in [Requests -> Request]
         /\ tokenLock' \in [Tokens -> Requests \cup {Free}]
         /\ userLock' \in Requests \cup {Free}
         /\ \A q \in Requests :
              /\ request'[q].pc = IF q = r THEN answer ELSE request[q].pc
              /\ request'[q].token = request[q].token
              /\ request'[q].seen = request[q].seen
  <1>1. answer \in {"idle"} \cup Waiting \cup Answer /\ Goto(r, answer)
    BY DEF EndTransaction
  <1>2. QED
    BY <1>1, GotoStep DEF EndTransaction, TypeOK

\* A request that is being handled keeps its token, and a token once issued has been issued.
LEMMA PresentedKept ==
  ASSUME Presented,
         \A q \in Requests : request'[q].pc \in Waiting =>
           request[q].pc \in Waiting /\ request'[q].token = request[q].token,
         \A t \in Tokens : token[t].state # "unused" => token'[t].state # "unused"
  PROVE  Presented'
  BY DEF Presented, Mine

\* The branches of a refresh and of a sign-out, once the token's row is free.
LEMMA Branches ==
  ASSUME TypeInv, NEW r \in Requests, Refresh(r) \/ Logout(r)
  PROVE  /\ request[r].pc = "lock_token" /\ request[r].token \in Tokens
         /\ tokenLock[request[r].token] = Free
         /\ \/ \E answer \in {"invalid", "signed_out"} : Answered(r, answer)
            \/ Mine(r).state = "spent" /\ Hold(r, "ending")
            \/ Mine(r).state = "live" /\ Hold(r, "rotating")
            \/ /\ Mine(r).state = "live"
               /\ token' = [token EXCEPT ![request[r].token].state = "deleted"]
               /\ Goto(r, "signed_out")
               /\ UNCHANGED <<tokenLock, userLock>>
  <1>1. /\ request[r].pc = "lock_token" /\ request[r].token \in Tokens
        /\ tokenLock[request[r].token] = Free
    BY DEF Refresh, Logout, Found, TypeInv, Presented, Waiting
  <1>2. Mine(r).state \in {"deleted", "live", "rotated", "spent"} /\ Mine(r).expired \in BOOLEAN
    BY <1>1 DEF TypeInv, TypeOK, Presented, Waiting, Mine, Token, Stored
  <1>3. CASE Refresh(r)
    BY <1>1, <1>2, <1>3 DEF Refresh
  <1>4. CASE Logout(r)
    BY <1>1, <1>2, <1>4 DEF Logout
  <1>5. QED
    BY <1>3, <1>4

\* The row that a refresh rotates, and the one it issues.
LEMMA Issued ==
  ASSUME TypeInv, NEW r \in Requests, Issue(r)
  PROVE  /\ request[r].token \in Tokens /\ Mine(r).state # "unused"
         /\ \E new \in Tokens :
              /\ token[new].state = "unused" /\ new # request[r].token
              /\ token' = [token EXCEPT ![request[r].token] = [Mine(r) EXCEPT !.state = "rotated"],
                                        ![new] = NewToken(Mine(r).session)]
  <1>1. request[r].token \in Tokens /\ Mine(r).state # "unused"
    BY DEF Issue, TypeInv, Presented, Waiting
  <1>2. PICK new \in Fresh :
          token' = [token EXCEPT ![request[r].token].state = "rotated",
                                 ![new] = NewToken(Mine(r).session)]
    BY DEF Issue
  <1>3. QED
    BY <1>1, <1>2 DEF Fresh, Mine, TypeInv, TypeOK

\* Every step of a request or of the clock leaves each variable in its type, and a request with
\* the token that it presented.
LEMMA TypeStep == TypeInv /\ [Next]_vars => TypeInv'
  <1> SUFFICES ASSUME TypeInv, [Next]_vars
               PROVE  TypeInv'
    OBVIOUS
  <1> USE DEF TypeInv
  <1>1. ASSUME NEW r \in Requests, Login(r)
        PROVE  TypeInv'
    <2>1. PICK new \in Fresh : token' = [token EXCEPT ![new] = NewToken(r)]
      BY <1>1 DEF Login
    <2>2. NewToken(r) \in Token /\ NewToken(r).state # "unused"
      BY DEF NewToken, Token, Stored
    <2>3. [request[r] EXCEPT !.pc = "issued", !.op = "login"] \in Request
      BY DEF TypeOK, Request, Answer, Operation
    <2>4. TypeOK'
      BY <1>1, <2>1, <2>2, <2>3 DEF Login, TypeOK, Fresh
    <2>5. \A q \in Requests : request'[q].pc \in Waiting => request'[q] = request[q]
      BY <1>1 DEF Login, TypeOK, Request, Waiting
    <2>6. \A t \in Tokens : token[t].state # "unused" => token'[t].state # "unused"
      BY <2>1, <2>2 DEF TypeOK, Fresh
    <2>7. QED
      BY <2>4, <2>5, <2>6, PresentedKept
  <1>2. ASSUME NEW r \in Requests, NEW op \in {"refresh", "logout"}, NEW t \in Tokens, Present(r, op, t)
        PROVE  TypeInv'
    <2>1. [request[r] EXCEPT !.pc = "lock_token", !.op = op, !.token = t] \in Request
      BY DEF TypeOK, Request, Waiting, Operation
    <2>2. TypeOK'
      BY <1>2, <2>1 DEF Present, TypeOK
    <2>3. request'[r].token = t /\ \A q \in Requests \ {r} : request'[q] = request[q]
      BY <1>2 DEF Present, TypeOK, Request
    <2>4. QED
      BY <1>2, <2>2, <2>3 DEF Present, Presented, Mine
  <1>3. ASSUME NEW r \in Requests, Refresh(r) \/ Logout(r)
        PROVE  TypeInv'
    <2>1. request[r].token \in Tokens /\ request[r].pc \in Waiting
      BY <1>3, Branches DEF Waiting
    <2>2. CASE \E answer \in {"invalid", "signed_out"} : Answered(r, answer)
      <3>1. PICK answer \in {"invalid", "signed_out"} : Answered(r, answer)
        BY <2>2
      <3>2. answer \in Answer /\ answer \notin Waiting /\ Goto(r, answer)
        BY <3>1 DEF Answered, Answer, Waiting
      <3>3. QED
        BY <3>1, <3>2, GotoStep, PresentedKept DEF Answered, TypeOK
    <2>3. CASE Hold(r, "ending") \/ Hold(r, "rotating")
      <3>1. PICK pc \in {"ending", "rotating"} : Hold(r, pc)
        BY <2>3
      <3>2. pc \in Waiting /\ Goto(r, pc)
        BY <3>1 DEF Hold, Waiting
      <3>3. QED
        BY <2>1, <3>1, <3>2, GotoStep, PresentedKept DEF Hold, TypeOK
    <2>4. CASE /\ token' = [token EXCEPT ![request[r].token].state = "deleted"]
               /\ Goto(r, "signed_out")
               /\ UNCHANGED <<tokenLock, userLock>>
      <3>1. "signed_out" \in Answer /\ "signed_out" \notin Waiting
        BY DEF Answer, Waiting
      <3>2. [Mine(r) EXCEPT !.state = "deleted"] \in Token
        BY <2>1 DEF TypeOK, Token, Mine
      <3>3. \A t \in Tokens : token[t].state # "unused" => token'[t].state # "unused"
        BY <2>1, <2>4 DEF TypeOK, Token
      <3>4. QED
        BY <2>1, <2>4, <3>1, <3>2, <3>3, GotoStep, PresentedKept DEF Mine, TypeOK
    <2>5. QED
      BY <1>3, <2>2, <2>3, <2>4, Branches
  <1>4. ASSUME NEW r \in Requests, LockUser(r)
        PROVE  TypeInv'
    <2>1. /\ [request[r] EXCEPT !.pc = "issuing"] \in Request
          /\ [request[r] EXCEPT !.pc = "deleting", !.seen = Rows] \in Request
      BY DEF TypeOK, Request, Waiting, Rows
    <2>2. TypeOK'
      BY <1>4, <2>1 DEF LockUser, TypeOK
    <2>3. request[r].pc \in Waiting
      BY <1>4 DEF LockUser, Waiting
    <2>4. \A q \in Requests :
            request'[q].token = request[q].token /\ (q # r => request'[q].pc = request[q].pc)
      BY <1>4 DEF LockUser, TypeOK, Request
    <2>5. QED
      BY <1>4, <2>2, <2>3, <2>4, PresentedKept DEF LockUser
  <1>5. ASSUME NEW r \in Requests, Issue(r)
        PROVE  TypeInv'
    <2>1. PICK new \in Tokens :
            /\ new # request[r].token
            /\ token' = [token EXCEPT ![request[r].token] = [Mine(r) EXCEPT !.state = "rotated"],
                                      ![new] = NewToken(Mine(r).session)]
      BY <1>5, Issued
    <2>2. request[r].token \in Tokens
      BY <1>5, Issued
    <2>3. NewToken(Mine(r).session) \in Token /\ [Mine(r) EXCEPT !.state = "rotated"] \in Token
      BY <2>2 DEF NewToken, Mine, TypeOK, Token, Stored
    <2>4. "issued" \in Answer /\ "issued" \notin Waiting
      BY DEF Answer, Waiting
    <2>5. TypeOK'
      BY <1>5, <2>1, <2>2, <2>3, <2>4, EndTransactionStep DEF Issue, TypeOK
    <2>6. \A t \in Tokens : token[t].state # "unused" => token'[t].state # "unused"
      BY <2>1, <2>2 DEF TypeOK, Token, Mine, NewToken
    <2>7. QED
      BY <1>5, <2>4, <2>5, <2>6, EndTransactionStep, PresentedKept DEF Issue
  <1>6. ASSUME NEW r \in Requests, EndEverySession(r)
        PROVE  TypeInv'
    <2>1. \A t \in Tokens : [token[t] EXCEPT !.state = "deleted"] \in Token
      BY DEF TypeOK, Token
    <2>2. "ended" \in Answer /\ "ended" \notin Waiting
      BY DEF Answer, Waiting
    <2>3. TypeOK'
      BY <1>6, <2>1, <2>2, EndTransactionStep DEF EndEverySession, TypeOK
    <2>4. \A t \in Tokens : token[t].state # "unused" => token'[t].state # "unused"
      BY <1>6 DEF EndEverySession, TypeOK, Token
    <2>5. QED
      BY <1>6, <2>2, <2>3, <2>4, EndTransactionStep, PresentedKept DEF EndEverySession
  <1>7. ASSUME NEW r \in Requests, Abort(r)
        PROVE  TypeInv'
    <2>1. "aborted" \in Answer /\ "aborted" \notin Waiting
      BY DEF Answer, Waiting
    <2>2. QED
      BY <1>7, <2>1, EndTransactionStep, PresentedKept DEF Abort, TypeOK
  <1>8. ASSUME NEW t \in Tokens, Expire(t) \/ GraceEnds(t)
        PROVE  TypeInv'
    <2>1. /\ [token[t] EXCEPT !.expired = TRUE] \in Token
          /\ [token[t] EXCEPT !.state = "spent"] \in Token
      BY DEF TypeOK, Token, Stored
    <2>2. TypeOK'
      BY <1>8, <2>1 DEF Expire, GraceEnds, TypeOK
    <2>3. \A u \in Tokens : token[u].state # "unused" => token'[u].state # "unused"
      BY <1>8 DEF Expire, GraceEnds, TypeOK, Token
    <2>4. QED
      BY <1>8, <2>2, <2>3, PresentedKept DEF Expire, GraceEnds
  <1>9. CASE UNCHANGED vars
    BY <1>9 DEF vars, TypeOK, Presented, Mine
  <1>10. QED
    BY <1>1, <1>2, <1>3, <1>4, <1>5, <1>6, <1>7, <1>8, <1>9 DEF Next, Step

\* Every variable keeps its type, however many requests there are and whoever is aborted.
THEOREM TypeCorrect == Spec => []TypeOK
  <1>1. Init => TypeInv
    BY DEF Init, TypeInv, TypeOK, Token, Request, Presented, Waiting
  <1>2. TypeInv => TypeOK
    BY DEF TypeInv
  <1>3. QED
    BY <1>1, <1>2, TypeStep, PTL DEF Spec

-----------------------------------------------------------------------------
(* The row locks.                                                          *)

\* Of a transaction that ends, nothing is held any more, and nobody else's lock has moved.
LEMMA Released ==
  ASSUME ConstantsOK, TypeInv, Locked, NEW r \in Requests, NEW answer \in Answer,
         EndTransaction(r, answer)
  PROVE  TokenHeld' /\ UserHeld'
  <1>1. answer \notin Waiting /\ answer \notin Holding
    BY DEF Answer, Waiting, Holding
  <1>2. Holding \subseteq Waiting
    BY DEF Holding, Waiting
  <1>3. TokenHeld'
    <2>1. ASSUME NEW q \in Requests, request'[q].pc \in Holding
          PROVE  tokenLock'[request'[q].token] = q
      <3>1. q # r /\ request[q].pc \in Holding /\ request'[q].token = request[q].token
        BY <1>1, <2>1, EndTransactionStep DEF TypeInv
      <3>2. request[q].token \in Tokens /\ tokenLock[request[q].token] = q
        BY <1>2, <3>1 DEF Locked, TokenHeld, TypeInv, Presented
      <3>3. QED
        BY <3>1, <3>2 DEF EndTransaction
    <2>2. QED
      BY <2>1 DEF TokenHeld
  <1>4. UserHeld'
    <2>1. userLock' = IF userLock = r THEN Free ELSE userLock
      BY DEF EndTransaction
    <2>2. \A q \in Requests : request'[q].pc = IF q = r THEN answer ELSE request[q].pc
      BY EndTransactionStep DEF TypeInv
    <2>3. answer \notin {"issuing", "deleting"}
      BY DEF Answer
    <2>4. QED
      BY <2>1, <2>2, <2>3 DEF Locked, UserHeld, ConstantsOK
  <1>5. QED
    BY <1>3, <1>4

\* Requests that are not about to rotate a token stay so, and the others find theirs as it was.
LEMMA RotatesKept ==
  ASSUME TypeInv, Locked,
         \A q \in Requests : request'[q].pc \in {"rotating", "issuing"} =>
           /\ request[q].pc \in {"rotating", "issuing"}
           /\ request'[q].token = request[q].token
           /\ token'[request[q].token].state = Mine(q).state
  PROVE  RotatesLive'
  BY DEF Locked, RotatesLive, Mine

\* No request that has begun is as if it had not, and no token changes its session once it has one.
LEMMA BegunKept ==
  ASSUME SessionsBegan,
         \A q \in Requests : request'[q].pc = "idle" => request[q].pc = "idle",
         \A t \in Tokens : token'[t].session = token[t].session
  PROVE  SessionsBegan'
  BY DEF SessionsBegan

LEMMA LockedStep == ConstantsOK /\ TypeInv /\ Locked /\ [Next]_vars => Locked'
  <1> SUFFICES ASSUME ConstantsOK, TypeInv, Locked, [Next]_vars
               PROVE  Locked'
    OBVIOUS
  <1> USE DEF Locked
  <1>a. TypeInv'
    BY TypeStep
  <1>b. Holding \subseteq Waiting /\ {"rotating", "issuing"} \subseteq Holding /\ "idle" \notin Waiting
    BY DEF Holding, Waiting
  <1>c. TypeOK /\ Presented
    BY DEF TypeInv
  <1>1. ASSUME NEW r \in Requests, Login(r)
        PROVE  Locked'
    <2>1. PICK new \in Fresh : token' = [token EXCEPT ![new] = NewToken(r)]
      BY <1>1 DEF Login
    <2>2. new \in Tokens /\ token[new].state = "unused"
      BY <2>1 DEF Fresh
    <2>3. /\ request[r].pc = "idle" /\ request'[r].pc = "issued"
          /\ \A q \in Requests \ {r} : request'[q] = request[q]
      BY <1>1, <1>c DEF Login, TypeOK, Request
    <2>4. TokenHeld' /\ UserHeld'
      BY <1>1, <2>3 DEF Login, TokenHeld, UserHeld, Holding
    <2>5. RotatesLive'
      BY <1>b, <1>c, <2>1, <2>2, <2>3 DEF RotatesLive, Mine, Presented, TypeOK
    <2>6. SessionsBegan'
      BY <1>c, <2>1, <2>2, <2>3 DEF SessionsBegan, NewToken, TypeOK
    <2>7. QED
      BY <2>4, <2>5, <2>6
  <1>2. ASSUME NEW r \in Requests, NEW op \in {"refresh", "logout"}, NEW t \in Tokens, Present(r, op, t)
        PROVE  Locked'
    <2>1. /\ request'[r].pc = "lock_token" /\ request[r].pc = "idle"
          /\ \A q \in Requests \ {r} : request'[q] = request[q]
      BY <1>2, <1>c DEF Present, TypeOK, Request
    <2>2. UNCHANGED <<token, tokenLock, userLock>>
      BY <1>2 DEF Present
    <2>3. TokenHeld' /\ UserHeld'
      BY <2>1, <2>2 DEF TokenHeld, UserHeld, Holding
    <2>4. RotatesLive' /\ SessionsBegan'
      BY <2>1, <2>2 DEF RotatesLive, Mine, SessionsBegan
    <2>5. QED
      BY <2>3, <2>4
  <1>3. ASSUME NEW r \in Requests, Refresh(r) \/ Logout(r)
        PROVE  Locked'
    <2>1. /\ request[r].pc = "lock_token" /\ request[r].token \in Tokens
          /\ tokenLock[request[r].token] = Free
      BY <1>3, Branches
    <2>2. ASSUME NEW q \in Requests, request[q].pc \in Holding
          PROVE  request[q].token \in Tokens \ {request[r].token}
      BY <1>b, <1>c, <2>1, <2>2 DEF TokenHeld, ConstantsOK, Presented
    <2>3. CASE \E answer \in {"invalid", "signed_out"} : Answered(r, answer)
      <3>1. PICK answer \in {"invalid", "signed_out"} : Answered(r, answer)
        BY <2>3
      <3>2. answer \in Answer /\ answer \notin Holding /\ Goto(r, answer)
        BY <3>1 DEF Answered, Answer, Holding
      <3>3. \A q \in Requests :
              /\ request'[q].pc = IF q = r THEN answer ELSE request[q].pc
              /\ request'[q].token = request[q].token
        BY <1>c, <3>2, GotoStep
      <3>4. QED
        BY <2>1, <3>1, <3>2, <3>3
        DEF Answered, TokenHeld, UserHeld, RotatesLive, Mine, SessionsBegan, Holding
    <2>4. ASSUME NEW pc \in {"ending", "rotating"}, Hold(r, pc), pc = "rotating" => Mine(r).state = "live"
          PROVE  Locked'
      <3>1. pc \in Waiting /\ Goto(r, pc)
        BY <2>4 DEF Hold, Waiting
      <3>2. \A q \in Requests :
              /\ request'[q].pc = IF q = r THEN pc ELSE request[q].pc
              /\ request'[q].token = request[q].token
        BY <1>c, <3>1, GotoStep
      <3>3. tokenLock' = [tokenLock EXCEPT ![request[r].token] = r] /\ UNCHANGED <<token, userLock>>
        BY <2>4 DEF Hold
      <3>4. TokenHeld'
        BY <1>c, <2>1, <2>2, <3>2, <3>3 DEF TokenHeld, TypeOK
      <3>5. UserHeld' /\ SessionsBegan'
        BY <2>1, <3>2, <3>3 DEF UserHeld, SessionsBegan
      <3>6. RotatesLive'
        BY <2>1, <2>4, <3>2, <3>3 DEF RotatesLive, Mine
      <3>7. QED
        BY <3>4, <3>5, <3>6
    <2>5. CASE /\ token' = [token EXCEPT ![request[r].token].state = "deleted"]
               /\ Goto(r, "signed_out")
               /\ UNCHANGED <<tokenLock, userLock>>
      <3>1. "signed_out" \in Answer /\ "signed_out" \notin Holding
        BY DEF Answer, Holding
      <3>2. \A q \in Requests :
              /\ request'[q].pc = IF q = r THEN "signed_out" ELSE request[q].pc
              /\ request'[q].token = request[q].token
        BY <1>c, <2>5, <3>1, GotoStep
      <3>3. TokenHeld' /\ UserHeld'
        BY <2>1, <2>5, <3>1, <3>2 DEF TokenHeld, UserHeld
      <3>4. RotatesLive'
        BY <1>b, <1>c, <2>2, <2>5, <3>1, <3>2 DEF RotatesLive, Mine, TypeOK
      <3>5. \A t \in Tokens : token'[t].session = token[t].session
        BY <1>c, <2>5 DEF TypeOK, Token
      <3>6. SessionsBegan'
        BY <3>2, <3>5, BegunKept
      <3>7. QED
        BY <3>3, <3>4, <3>6
    <2>6. QED
      BY <1>3, <2>3, <2>4, <2>5, Branches
  <1>4. ASSUME NEW r \in Requests, LockUser(r)
        PROVE  Locked'
    <2>1. /\ request[r].pc \in {"rotating", "ending"} /\ userLock = Free /\ userLock' = r
          /\ request'[r].pc = IF request[r].pc = "rotating" THEN "issuing" ELSE "deleting"
          /\ \A q \in Requests :
               request'[q].token = request[q].token /\ (q # r => request'[q].pc = request[q].pc)
          /\ UNCHANGED <<token, tokenLock>>
      BY <1>4, <1>c DEF LockUser, TypeOK, Request
    <2>2. TokenHeld' /\ RotatesLive' /\ SessionsBegan'
      BY <2>1 DEF TokenHeld, RotatesLive, Mine, SessionsBegan, Holding
    <2>3. UserHeld'
      BY <2>1 DEF UserHeld, ConstantsOK
    <2>4. QED
      BY <2>2, <2>3
  <1>5. ASSUME NEW r \in Requests, Issue(r)
        PROVE  Locked'
    <2>1. PICK new \in Tokens :
            /\ token[new].state = "unused" /\ new # request[r].token
            /\ token' = [token EXCEPT ![request[r].token] = [Mine(r) EXCEPT !.state = "rotated"],
                                      ![new] = NewToken(Mine(r).session)]
      BY <1>5, Issued
    <2>2. request[r].pc = "issuing" /\ EndTransaction(r, "issued") /\ "issued" \in Answer
      BY <1>5 DEF Issue, Answer
    <2>3. \A q \in Requests :
            /\ request'[q].pc = IF q = r THEN "issued" ELSE request[q].pc
            /\ request'[q].token = request[q].token
      BY <1>c, <2>2, EndTransactionStep
    <2>4. ASSUME NEW q \in Requests, request'[q].pc \in {"rotating", "issuing"}
          PROVE  token'[request[q].token].state = Mine(q).state
      <3>1. q # r /\ request[q].pc \in Holding /\ request[r].pc \in Holding
        BY <1>b, <2>2, <2>3, <2>4 DEF Holding
      <3>2. request[q].token \in Tokens /\ request[q].token # request[r].token /\ request[q].token # new
        BY <1>b, <1>c, <2>1, <3>1 DEF TokenHeld, Presented, Mine
      <3>3. QED
        BY <1>c, <2>1, <3>2 DEF TypeOK, Mine
    <2>5. RotatesLive'
      BY <2>3, <2>4, RotatesKept
    <2>6. SessionsBegan'
      <3>1. request[r].token \in Tokens
        BY <1>5, Issued
      <3>2. \A t \in Tokens : token'[t].session \in {token[t].session, Mine(r).session}
        BY <1>c, <2>1, <3>1 DEF TypeOK, Token, NewToken, Mine
      <3>3. QED
        BY <2>3, <3>1, <3>2 DEF SessionsBegan, Mine
    <2>7. QED
      BY <2>2, <2>5, <2>6, Released
  <1>6. ASSUME NEW r \in Requests, EndEverySession(r)
        PROVE  Locked'
    <2>1. EndTransaction(r, "ended") /\ "ended" \in Answer
      BY <1>6 DEF EndEverySession, Answer
    <2>2. \A q \in Requests :
            /\ request'[q].pc = IF q = r THEN "ended" ELSE request[q].pc
            /\ request'[q].token = request[q].token
      BY <1>c, <2>1, EndTransactionStep
    <2>3. ASSUME NEW q \in Requests, request'[q].pc \in {"rotating", "issuing"}
          PROVE  token'[request[q].token].state = Mine(q).state
      <3>1. q # r /\ request[q].token \in Tokens /\ tokenLock[request[q].token] = q
        BY <1>b, <1>c, <2>2, <2>3 DEF TokenHeld, Presented
      <3>2. request[q].token \notin request[r].seen
        BY <1>6, <3>1 DEF EndEverySession, Blocking, ConstantsOK
      <3>3. QED
        BY <1>6, <3>1, <3>2 DEF EndEverySession, Mine
    <2>4. RotatesLive'
      BY <2>2, <2>3, RotatesKept
    <2>5. \A t \in Tokens : token'[t].session = token[t].session
      BY <1>6, <1>c DEF EndEverySession, TypeOK, Token
    <2>6. SessionsBegan'
      BY <2>2, <2>5, BegunKept
    <2>7. QED
      BY <2>1, <2>4, <2>6, Released
  <1>7. ASSUME NEW r \in Requests, Abort(r)
        PROVE  Locked'
    <2>1. EndTransaction(r, "aborted") /\ "aborted" \in Answer /\ UNCHANGED token
      BY <1>7 DEF Abort, Answer
    <2>2. \A q \in Requests :
            /\ request'[q].pc = IF q = r THEN "aborted" ELSE request[q].pc
            /\ request'[q].token = request[q].token
      BY <1>c, <2>1, EndTransactionStep
    <2>3. RotatesLive'
      BY <2>1, <2>2, RotatesKept DEF Mine
    <2>4. SessionsBegan'
      BY <2>1, <2>2, BegunKept
    <2>5. QED
      BY <2>1, <2>3, <2>4, Released
  <1>8. ASSUME NEW t \in Tokens, Expire(t) \/ GraceEnds(t)
        PROVE  Locked'
    <2>1. UNCHANGED <<tokenLock, userLock, request>>
      BY <1>8 DEF Expire, GraceEnds
    <2>2. \A u \in Tokens : /\ token'[u].session = token[u].session
                            /\ token[u].state = "live" => token'[u].state = "live"
      BY <1>8, <1>c DEF Expire, GraceEnds, TypeOK, Token
    <2>3. RotatesLive'
      BY <1>b, <1>c, <2>1, <2>2 DEF RotatesLive, Mine, Presented
    <2>4. QED
      BY <2>1, <2>2, <2>3, BegunKept DEF TokenHeld, UserHeld
  <1>9. CASE UNCHANGED vars
    BY <1>9 DEF vars, TokenHeld, UserHeld, RotatesLive, SessionsBegan, Mine
  <1>10. QED
    BY <1>1, <1>2, <1>3, <1>4, <1>5, <1>6, <1>7, <1>8, <1>9 DEF Next, Step

-----------------------------------------------------------------------------
(* The sessions.                                                           *)

\* A snapshot stays whole while no token of it comes to life.
LEMMA SeenKept ==
  ASSUME TypeOK, SeenIsWhole,
         \A q \in Requests : request'[q].pc = "deleting" =>
           request[q].pc = "deleting" /\ request'[q].seen = request[q].seen,
         \A t \in Tokens : /\ token'[t].session = token[t].session
                           /\ token'[t].state = "live" => token[t].state = "live"
  PROVE  SeenIsWhole'
  <1>1. \A q \in Requests : request[q].seen \subseteq Tokens
    BY DEF TypeOK, Request
  <1>2. QED
    BY <1>1 DEF SeenIsWhole

\* Nor does anything else change about a session while none of its tokens is issued, revoked
\* or deleted.
LEMMA TokensKept ==
  ASSUME Sessions,
         \A t \in Tokens : /\ token'[t].session = token[t].session
                           /\ token'[t].state = "live" <=> token[t].state = "live"
                           /\ token'[t].state = "deleted" <=> token[t].state = "deleted"
                           /\ token'[t].state \in Stored => token[t].state \in Stored
  PROVE  LiveAlone' /\ Replaced' /\ Ended'
  BY DEF Sessions, LiveAlone, Replaced, Ended, Rows

LEMMA SessionsStep == ConstantsOK /\ TypeInv /\ Locked /\ Sessions /\ [Next]_vars => Sessions'
  <1> SUFFICES ASSUME ConstantsOK, TypeInv, Locked, Sessions, [Next]_vars
               PROVE  Sessions'
    OBVIOUS
  <1> USE DEF Sessions
  <1>a. TypeOK /\ Presented
    BY DEF TypeInv
  <1>b. Free \notin Requests
    BY DEF ConstantsOK
  <1>1. ASSUME NEW r \in Requests, Login(r)
        PROVE  Sessions'
    <2>1. PICK new \in Fresh : token' = [token EXCEPT ![new] = NewToken(r)]
      BY <1>1 DEF Login
    <2>2. /\ new \in Tokens /\ token[new].state = "unused"
          /\ token'[new].state = "live" /\ token'[new].session = r
          /\ \A t \in Tokens \ {new} : token'[t] = token[t]
      BY <1>a, <2>1 DEF Fresh, TypeOK, NewToken
    <2>3. \A t \in Tokens : token[t].session # r
      BY <1>1 DEF Login, Locked, SessionsBegan
    <2>4. /\ request[r].pc = "idle" /\ request'[r].pc = "issued"
          /\ \A q \in Requests \ {r} : request'[q] = request[q]
      BY <1>1, <1>a DEF Login, TypeOK, Request
    <2>5. SeenIsWhole'
      <3>1. ASSUME NEW q \in Requests, request'[q].pc = "deleting",
                   NEW t \in request'[q].seen, NEW u \in Tokens,
                   token'[u].state = "live", token'[u].session = token'[t].session
            PROVE  u \in request'[q].seen
        <4>1. q # r /\ t \in Tokens /\ request'[q] = request[q]
          BY <1>a, <2>4, <3>1 DEF TypeOK, Request
        <4>2. CASE u = new
          BY <2>2, <2>3, <3>1, <4>1, <4>2
        <4>3. CASE u # new
          <5>1. t # new
            BY <2>2, <2>3, <3>1, <4>3
          <5>2. QED
            BY <2>2, <3>1, <4>1, <4>3, <5>1 DEF SeenIsWhole
        <4>4. QED
          BY <4>2, <4>3
      <3>2. QED
        BY <3>1 DEF SeenIsWhole
    <2>6. LiveAlone' /\ Ended'
      BY <2>2, <2>3 DEF LiveAlone, Ended
    <2>7. Replaced'
      <3>1. ASSUME NEW t \in Tokens, token'[t].state \in Stored
            PROVE  \E u \in Tokens :
                     token'[u].session = token'[t].session /\ token'[u].state \in {"live", "deleted"}
        <4>1. CASE t = new
          BY <2>2, <4>1
        <4>2. CASE t # new
          <5>1. PICK u \in Tokens : token[u].session = token[t].session /\ token[u].state \in {"live", "deleted"}
            BY <2>2, <3>1, <4>2 DEF Replaced, Rows
          <5>2. QED
            BY <2>2, <4>2, <5>1
        <4>3. QED
          BY <4>1, <4>2
      <3>2. QED
        BY <3>1 DEF Replaced, Rows
    <2>8. QED
      BY <2>5, <2>6, <2>7
  <1>2. ASSUME NEW r \in Requests, NEW op \in {"refresh", "logout"}, NEW t \in Tokens, Present(r, op, t)
        PROVE  Sessions'
    <2>1. /\ request'[r].pc = "lock_token" /\ UNCHANGED token
          /\ \A q \in Requests \ {r} : request'[q] = request[q]
      BY <1>2, <1>a DEF Present, TypeOK, Request
    <2>2. QED
      BY <1>a, <2>1, SeenKept, TokensKept
  <1>3. ASSUME NEW r \in Requests, Refresh(r) \/ Logout(r)
        PROVE  Sessions'
    <2>1. request[r].token \in Tokens
      BY <1>3, Branches
    <2>2. ASSUME NEW pc \in Waiting \cup Answer, pc # "deleting", Goto(r, pc), UNCHANGED token
          PROVE  Sessions'
      <3>1. \A q \in Requests : request'[q].pc = "deleting" =>
              request[q].pc = "deleting" /\ request'[q].seen = request[q].seen
        BY <1>a, <2>2, GotoStep
      <3>2. QED
        BY <1>a, <2>2, <3>1, SeenKept, TokensKept
    <2>3. CASE \E answer \in {"invalid", "signed_out"} : Answered(r, answer)
      BY <2>2, <2>3 DEF Answered, Answer
    <2>4. CASE Hold(r, "ending") \/ Hold(r, "rotating")
      BY <2>2, <2>4 DEF Hold, Waiting
    <2>5. CASE /\ Mine(r).state = "live"
               /\ token' = [token EXCEPT ![request[r].token].state = "deleted"]
               /\ Goto(r, "signed_out")
      <3>1. "signed_out" \in Answer
        BY DEF Answer
      <3>2. \A q \in Requests : request'[q].pc = "deleting" =>
              request[q].pc = "deleting" /\ request'[q].seen = request[q].seen
        BY <1>a, <2>5, <3>1, GotoStep
      <3>3. \A t \in Tokens :
              /\ token'[t].session = token[t].session
              /\ token'[t].state = IF t = request[r].token THEN "deleted" ELSE token[t].state
        BY <1>a, <2>1, <2>5 DEF TypeOK, Token
      <3>4. SeenIsWhole'
        BY <1>a, <3>2, <3>3, SeenKept
      <3>5. LiveAlone' /\ Ended'
        BY <2>1, <2>5, <3>3 DEF LiveAlone, Ended, Mine
      <3>6. Replaced'
        BY <2>1, <3>3 DEF Replaced, Rows, Stored
      <3>7. QED
        BY <3>4, <3>5, <3>6
    <2>6. QED
      BY <1>3, <2>3, <2>4, <2>5, Branches
  <1>4. ASSUME NEW r \in Requests, LockUser(r)
        PROVE  Sessions'
    <2>1. /\ \A q \in Requests \ {r} : request'[q] = request[q]
          /\ request'[r].pc = "deleting" => request'[r].seen = Rows
          /\ UNCHANGED token
      BY <1>4, <1>a DEF LockUser, TypeOK, Request
    <2>2. SeenIsWhole'
      BY <2>1 DEF SeenIsWhole, Rows, Stored
    <2>3. QED
      BY <2>1, <2>2, TokensKept
  <1>5. ASSUME NEW r \in Requests, Issue(r)
        PROVE  Sessions'
    <2>1. PICK new \in Tokens :
            /\ token[new].state = "unused" /\ new # request[r].token
            /\ token' = [token EXCEPT ![request[r].token] = [Mine(r) EXCEPT !.state = "rotated"],
                                      ![new] = NewToken(Mine(r).session)]
      BY <1>5, Issued
    <2>2. request[r].pc = "issuing" /\ EndTransaction(r, "issued") /\ "issued" \in Answer
      BY <1>5 DEF Issue, Answer
    <2>3. request[r].token \in Tokens /\ token[request[r].token].state = "live"
      BY <1>5, <2>2, Issued DEF Locked, RotatesLive, Mine
    <2>4. \A t \in Tokens :
            /\ token'[t].session =
                 IF t = new THEN token[request[r].token].session ELSE token[t].session
            /\ token'[t].state =
                 IF t = new THEN "live" ELSE IF t = request[r].token THEN "rotated" ELSE token[t].state
      BY <1>a, <2>1, <2>3 DEF TypeOK, Token, NewToken, Mine
    <2>5. SeenIsWhole'
      <3>1. \A q \in Requests : request[q].pc # "deleting"
        BY <2>2 DEF Locked, UserHeld
      <3>2. \A q \in Requests : request'[q].pc # "deleting"
        BY <1>a, <2>2, <3>1, EndTransactionStep
      <3>3. QED
        BY <3>2 DEF SeenIsWhole
    <2>6. LiveAlone'
      BY <2>3, <2>4 DEF LiveAlone
    <2>7. Ended'
      <3>1. ASSUME NEW t \in Tokens, NEW u \in Tokens, token'[t].state = "deleted",
                   token'[u].session = token'[t].session
            PROVE  token'[u].state # "live"
        <4>1. t # new /\ token[t].state = "deleted" /\ token'[t].session = token[t].session
          BY <2>3, <2>4, <3>1
        <4>2. token[t].session # token[request[r].token].session
          BY <2>3, <4>1 DEF Ended
        <4>3. QED
          BY <2>4, <3>1, <4>1, <4>2 DEF Ended
      <3>2. QED
        BY <3>1 DEF Ended
    <2>8. Replaced'
      <3>1. ASSUME NEW t \in Tokens, token'[t].state \in Stored
            PROVE  \E u \in Tokens :
                     token'[u].session = token'[t].session /\ token'[u].state \in {"live", "deleted"}
        <4>1. CASE t \in {new, request[r].token}
          BY <2>3, <2>4, <4>1
        <4>2. CASE t \notin {new, request[r].token}
          <5>1. PICK u \in Tokens : token[u].session = token[t].session /\ token[u].state \in {"live", "deleted"}
            BY <2>4, <3>1, <4>2 DEF Replaced, Rows
          <5>2. CASE u = request[r].token
            BY <2>4, <4>2, <5>1, <5>2
          <5>3. CASE u # request[r].token
            <6>1. u # new
              BY <2>1, <5>1
            <6>2. QED
              BY <2>4, <4>2, <5>1, <5>3, <6>1
          <5>4. QED
            BY <5>2, <5>3
        <4>3. QED
          BY <4>1, <4>2
      <3>2. QED
        BY <3>1 DEF Replaced, Rows
    <2>9. QED
      BY <2>5, <2>6, <2>7, <2>8
  <1>6. ASSUME NEW r \in Requests, EndEverySession(r)
        PROVE  Sessions'
    <2>1. request[r].pc = "deleting" /\ EndTransaction(r, "ended") /\ "ended" \in Answer
      BY <1>6 DEF EndEverySession, Answer
    <2>2. \A t \in Tokens :
            /\ token'[t].session = token[t].session
            /\ token'[t].state = IF t \in request[r].seen \cap Rows THEN "deleted" ELSE token[t].state
      BY <1>6, <1>a DEF EndEverySession, TypeOK, Token
    <2>3. \A q \in Requests : request'[q].pc = "deleting" =>
            request[q].pc = "deleting" /\ request'[q].seen = request[q].seen
      BY <1>a, <2>1, EndTransactionStep
    <2>4. SeenIsWhole'
      BY <1>a, <2>2, <2>3, SeenKept
    <2>5. LiveAlone'
      BY <2>2 DEF LiveAlone
    <2>6. Ended'
      BY <2>1, <2>2 DEF Ended, SeenIsWhole, Rows, Stored
    <2>7. Replaced'
      BY <2>2 DEF Replaced, Rows, Stored
    <2>8. QED
      BY <2>4, <2>5, <2>6, <2>7
  <1>7. ASSUME NEW r \in Requests, Abort(r)
        PROVE  Sessions'
    <2>1. EndTransaction(r, "aborted") /\ "aborted" \in Answer /\ UNCHANGED token
      BY <1>7 DEF Abort, Answer
    <2>2. \A q \in Requests : request'[q].pc = "deleting" =>
            request[q].pc = "deleting" /\ request'[q].seen = request[q].seen
      BY <1>a, <2>1, EndTransactionStep
    <2>3. QED
      BY <1>a, <2>1, <2>2, SeenKept, TokensKept
  <1>8. ASSUME NEW t \in Tokens, Expire(t) \/ GraceEnds(t)
        PROVE  Sessions'
    <2>1. UNCHANGED request
      BY <1>8 DEF Expire, GraceEnds
    <2>2. \A u \in Tokens : /\ token'[u].session = token[u].session
                            /\ \/ token'[u].state = token[u].state
                               \/ token[u].state = "rotated" /\ token'[u].state = "spent"
      BY <1>8, <1>a DEF Expire, GraceEnds, TypeOK, Token
    <2>3. QED
      BY <1>a, <2>1, <2>2, SeenKept, TokensKept DEF Stored
  <1>9. CASE UNCHANGED vars
    BY <1>9, <1>a, SeenKept, TokensKept DEF vars
  <1>10. QED
    BY <1>1, <1>2, <1>3, <1>4, <1>5, <1>6, <1>7, <1>8, <1>9 DEF Next, Step

\* The row locks are held, and the sessions are whole, in every state.
THEOREM Invariant == ASSUME ConstantsOK PROVE Spec => []IInv
  <1>1. Init => IInv
    <2>1. ASSUME Init PROVE IInv
      <3>1. TypeInv
        BY <2>1 DEF Init, TypeInv, TypeOK, Token, Request, Presented, Waiting
      <3>2. Locked
        BY <2>1
        DEF Init, Locked, TokenHeld, UserHeld, RotatesLive, SessionsBegan, Holding, ConstantsOK
      <3>3. Sessions
        BY <2>1 DEF Init, Sessions, SeenIsWhole, LiveAlone, Replaced, Ended, Rows, Stored
      <3>4. QED
        BY <3>1, <3>2, <3>3 DEF IInv
    <2>2. QED
      BY <2>1
  <1>2. IInv /\ [Next]_vars => IInv'
    BY TypeStep, LockedStep, SessionsStep DEF IInv
  <1>3. QED
    BY <1>1, <1>2, PTL DEF Spec

\* "Each refresh token works once": two refreshes that race with one token never leave a session
\* with two live ones, and a refresh never revokes the last one without issuing the next.
THEOREM OneLive == ASSUME ConstantsOK PROVE Spec => []OneLiveToken
  <1>1. IInv => OneLiveToken
    <2> SUFFICES ASSUME IInv, NEW s \in Requests
                 PROVE  /\ Cardinality(Live(s)) <= 1
                        /\ (\E t \in Rows : token[t].session = s) =>
                             \/ Live(s) # {}
                             \/ \E t \in Tokens : token[t].session = s /\ token[t].state = "deleted"
      BY DEF OneLiveToken
    <2>1. \A t, u \in Live(s) : t = u
      BY DEF IInv, Sessions, LiveAlone, Live
    <2>2. Live(s) = {} \/ \E t : Live(s) = {t}
      BY <2>1
    <2>3. Cardinality(Live(s)) <= 1
      <3>1. Cardinality({}) = 0 /\ \A t : Cardinality({t}) = 1
        BY FS_EmptySet, FS_Singleton
      <3>2. QED
        BY <2>2, <3>1
    <2>4. ASSUME NEW t \in Rows, token[t].session = s
          PROVE  Live(s) # {} \/ \E u \in Tokens : token[u].session = s /\ token[u].state = "deleted"
      BY <2>4 DEF IInv, Sessions, Replaced, Live
    <2>5. QED
      BY <2>3, <2>4
  <1>2. QED
    BY <1>1, Invariant, PTL

\* A session that has ended stays ended: no refresh still under way brings it back.
THEOREM StaysEnded == ASSUME ConstantsOK PROVE Spec => []EndedStaysEnded
  <1>1. IInv => EndedStaysEnded
    BY DEF IInv, Sessions, Ended, EndedStaysEnded, Live
  <1>2. QED
    BY <1>1, Invariant, PTL
=============================================================================
