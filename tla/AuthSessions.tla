----------------------------- MODULE AuthSessions -----------------------------
(***************************************************************************)
(* One user's refresh tokens, and the sign-ins, refreshes and sign-outs    *)
(* that issue, rotate and end them concurrently: backend/app/auth/service. *)
(* Users are independent of one another, so one is enough.                 *)
(*                                                                         *)
(* A transaction is cut where it may have to wait: SELECT ... FOR UPDATE   *)
(* of the token, the lock on the user, and the DELETE of every token,      *)
(* which waits for each row another transaction has locked.  What a        *)
(* transaction writes is seen by the others when it commits.               *)
(*                                                                         *)
(* A session is the sign-in it began with; a time is whether it has come.  *)
(***************************************************************************)
EXTENDS Naturals, FiniteSets

CONSTANTS
  Requests,
  MaxTokens,  \* bound on the tokens ever issued
  Free        \* nobody holds the row lock; no token, no session

\* Tokens in the order in which they are issued.
Tokens == 1 .. MaxTokens

\* What an instance must give the constants.
ConstantsOK == MaxTokens \in Nat \ {0} /\ Free \notin Requests \cup Tokens

VARIABLES
  token,       \* the rows of refresh_tokens, and those that have been
  tokenLock,   \* who holds each row's lock
  userLock,    \* who holds the user's row lock
  request      \* the progress of each request

vars == <<token, tokenLock, userLock, request>>

-----------------------------------------------------------------------------
\* live: revoked_at is null.  rotated: revoked within the grace period.  spent: before it.
Stored == {"live", "rotated", "spent"}

Token == [ state   : {"unused", "deleted"} \cup Stored,
           session : Requests \cup {Free},
           expired : BOOLEAN ]

Operation == {"login", "refresh", "logout"}

\* rotating, ending: the user's lock is next, to issue a token or to end every session.
Waiting == {"lock_token", "rotating", "issuing", "ending", "deleting"}
Answer == {"issued", "invalid", "signed_out", "ended", "aborted"}

Request == [ pc    : {"idle"} \cup Waiting \cup Answer,
             op    : Operation \cup {Free},
             token : Tokens \cup {Free},
             seen  : SUBSET Tokens ]   \* the snapshot of the DELETE

TypeOK ==
  /\ token \in [Tokens -> Token]
  /\ tokenLock \in [Tokens -> Requests \cup {Free}]
  /\ userLock \in Requests \cup {Free}
  /\ request \in [Requests -> Request]

Init ==
  /\ token = [t \in Tokens |-> [state |-> "unused", session |-> Free, expired |-> FALSE]]
  /\ tokenLock = [t \in Tokens |-> Free]
  /\ userLock = Free
  /\ request = [r \in Requests |-> [pc |-> "idle", op |-> Free, token |-> Free, seen |-> {}]]

Rows == {t \in Tokens : token[t].state \in Stored}

\* The next token to be issued, if the bound leaves one.
Fresh == {t \in Tokens : /\ token[t].state = "unused"
                         /\ \A u \in 1 .. t - 1 : token[u].state # "unused"}

Goto(r, pc) == request' = [request EXCEPT ![r].pc = pc]

\* Commit and rollback release the row locks.
EndTransaction(r, answer) ==
  /\ Goto(r, answer)
  /\ tokenLock' = [t \in Tokens |-> IF tokenLock[t] = r THEN Free ELSE tokenLock[t]]
  /\ userLock' = IF userLock = r THEN Free ELSE userLock

-----------------------------------------------------------------------------
\* Mutation of NewToken: expires_at is left null.
NewTokenUndated(session) == [state |-> "live", session |-> session, expired |-> Free]

NewToken(session) == [state |-> "live", session |-> session, expired |-> FALSE]

\* login takes no lock: a token inserted is seen by nobody until it is committed.
Login(r) ==
  /\ request[r].pc = "idle"
  /\ \E new \in Fresh :
       /\ token' = [token EXCEPT ![new] = NewToken(r)]
       /\ request' = [request EXCEPT ![r].pc = "issued", ![r].op = "login"]
  /\ UNCHANGED <<tokenLock, userLock>>

\* Any token that was ever issued may be presented, again or late.
Present(r, op, t) ==
  /\ request[r].pc = "idle"
  /\ token[t].state # "unused"
  /\ request' = [request EXCEPT ![r].pc = "lock_token", ![r].op = op, ![r].token = t]
  /\ UNCHANGED <<token, tokenLock, userLock>>

Mine(r) == token[request[r].token]

Found(r, op) ==
  /\ request[r].pc = "lock_token"
  /\ request[r].op = op
  /\ tokenLock[request[r].token] = Free

\* The token's row stays locked until the transaction ends.
Hold(r, pc) ==
  /\ Goto(r, pc)
  /\ tokenLock' = [tokenLock EXCEPT ![request[r].token] = r]
  /\ UNCHANGED <<token, userLock>>

Answered(r, answer) ==
  /\ Goto(r, answer)
  /\ UNCHANGED <<token, tokenLock, userLock>>

Refresh(r) ==
  /\ Found(r, "refresh")
  /\ CASE Mine(r).state = "deleted" \/ Mine(r).expired -> Answered(r, "invalid")
       [] Mine(r).state = "rotated" /\ ~Mine(r).expired -> Answered(r, "invalid")
       [] Mine(r).state = "spent" /\ ~Mine(r).expired -> Hold(r, "ending")
       [] Mine(r).state = "live" /\ ~Mine(r).expired -> Hold(r, "rotating")

Logout(r) ==
  /\ Found(r, "logout")
  /\ CASE Mine(r).state \in {"deleted", "rotated"} -> Answered(r, "signed_out")
       [] Mine(r).state = "spent" -> Hold(r, "ending")
       [] Mine(r).state = "live" ->
            /\ token' = [token EXCEPT ![request[r].token].state = "deleted"]
            /\ Goto(r, "signed_out")
            /\ UNCHANGED <<tokenLock, userLock>>

\* Mutation of LockUser: a refresh does not lock the user.
LockUserToEnd(r) ==
  \/ /\ request[r].pc = "rotating"
     /\ Goto(r, "issuing")
     /\ UNCHANGED <<token, tokenLock, userLock>>
  \/ /\ request[r].pc = "ending"
     /\ userLock = Free
     /\ userLock' = r
     /\ request' = [request EXCEPT ![r].pc = "deleting", ![r].seen = Rows]
     /\ UNCHANGED <<token, tokenLock>>

\* The DELETE is the next statement: what it will delete is what is committed now.
LockUser(r) ==
  /\ request[r].pc \in {"rotating", "ending"}
  /\ userLock = Free
  /\ userLock' = r
  /\ request' = IF request[r].pc = "rotating"
                  THEN [request EXCEPT ![r].pc = "issuing"]
                  ELSE [request EXCEPT ![r].pc = "deleting", ![r].seen = Rows]
  /\ UNCHANGED <<token, tokenLock>>

\* Mutation of Issue: the old token stays as it was.
IssueBeside(r) ==
  /\ request[r].pc = "issuing"
  /\ \E new \in Fresh : token' = [token EXCEPT ![new] = NewToken(Mine(r).session)]
  /\ EndTransaction(r, "issued")

\* The revocation of the old token and the new one, in one commit.
Issue(r) ==
  /\ request[r].pc = "issuing"
  /\ \E new \in Fresh :
       token' = [token EXCEPT ![request[r].token].state = "rotated",
                              ![new] = NewToken(Mine(r).session)]
  /\ EndTransaction(r, "issued")

Blocking(r) == {tokenLock[t] : t \in request[r].seen} \ {Free, r}

EndEverySession(r) ==
  /\ request[r].pc = "deleting"
  /\ Blocking(r) = {}
  /\ token' = [t \in Tokens |-> IF t \in request[r].seen \cap Rows
                                  THEN [token[t] EXCEPT !.state = "deleted"] ELSE token[t]]
  /\ EndTransaction(r, "ended")

-----------------------------------------------------------------------------
\* Whom a request waits for.
Awaits(r) ==
  CASE request[r].pc = "lock_token" -> {tokenLock[request[r].token]} \ {Free}
    [] request[r].pc \in {"rotating", "ending"} -> {userLock} \ {Free}
    [] request[r].pc = "deleting" -> Blocking(r)
    [] OTHER -> {}

Deadlocked(r) == \E q \in Awaits(r) : r \in Awaits(q)

\* The transaction is rolled back: by Postgres, as the victim of a deadlock, or because the
\* API process died.
Abort(r) ==
  /\ request[r].pc \in Waiting
  /\ EndTransaction(r, "aborted")
  /\ UNCHANGED token

\* Time passes.
Expire(t) ==
  /\ t \in Rows
  /\ token' = [token EXCEPT ![t].expired = TRUE]
  /\ UNCHANGED <<tokenLock, userLock, request>>

GraceEnds(t) ==
  /\ token[t].state = "rotated"
  /\ token' = [token EXCEPT ![t].state = "spent"]
  /\ UNCHANGED <<tokenLock, userLock, request>>

-----------------------------------------------------------------------------
Step(r) == Refresh(r) \/ Logout(r) \/ LockUser(r) \/ Issue(r) \/ EndEverySession(r)

Next ==
  \/ \E r \in Requests :
       \/ Login(r)
       \/ \E op \in {"refresh", "logout"}, t \in Tokens : Present(r, op, t)
       \/ Step(r) \/ Abort(r)
  \/ \E t \in Tokens : Expire(t) \/ GraceEnds(t)

Spec == Init /\ [][Next]_vars

-----------------------------------------------------------------------------
(***************************************************************************)
(* Properties.                                                             *)
(***************************************************************************)
Live(session) == {t \in Tokens : token[t].session = session /\ token[t].state = "live"}

\* "Each refresh token works once": two refreshes racing with one token never leave a session
\* with two live ones, and a refresh never revokes the last one without issuing the next.
OneLiveToken ==
  \A s \in Requests :
    /\ Cardinality(Live(s)) <= 1
    /\ (\E t \in Rows : token[t].session = s) =>
         \/ Live(s) # {}
         \/ \E t \in Tokens : token[t].session = s /\ token[t].state = "deleted"

\* A session that has ended stays ended: once one of its tokens has been deleted, by signing
\* out or because a token was reused, no refresh still under way brings it back.
EndedStaysEnded ==
  \A t \in Tokens : token[t].state = "deleted" => Live(token[t].session) = {}

\* auth/service.py: the user's lock is taken "after the lock on the token it was given -- one
\* order everywhere, so no deadlock".
NoDeadlock == \A r \in Requests : ~Deadlocked(r)
=============================================================================
