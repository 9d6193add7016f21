------------------------------- MODULE Accounts -------------------------------
(***************************************************************************)
(* Accounts and their sessions: internal/sessions, internal/users, and the *)
(* handlers of handlers/auth.go and handlers/otp.go that register, log in, *)
(* refresh, log out, verify an email address and reset a password.         *)
(*                                                                         *)
(* Each handler runs several statements with no transaction around them,   *)
(* so each statement is a step, and the handler may stop between any two.  *)
(* A one-time code that VerifyOTP accepts is where a verification or a     *)
(* reset begins; module Otp says when that is.                             *)
(*                                                                         *)
(* A password is the number of times it was changed; a refresh token is a  *)
(* session and the number of times its hash was replaced, for the tokens   *)
(* are random and a UNIQUE constraint keeps their hashes apart.            *)
(***************************************************************************)
EXTENDS Integers, FiniteSets, Sequences

CONSTANTS
    Users,
    Requests,      \* handlers under way at one time
    MaxSessions,
    MaxRefreshes,  \* how often one session is refreshed
    MaxPasswords   \* how often one password is changed

ASSUME AccountsAssumption ==
    /\ IsFiniteSet(Requests) /\ Requests # {}
    /\ MaxSessions \in Nat
    /\ MaxRefreshes \in Nat
    /\ MaxPasswords \in Nat

VARIABLES
    account,   \* account[u]: the row of user u, for those who have registered
    session,   \* the rows of auth_sessions, in the order of their creation
    client,    \* client[i]: what the client of session i has been told
    request,   \* request[r]: the handler r and what it has read
    halted     \* the users with a reset that stopped before it was done, and none
               \* that was since

vars == <<account, session, client, request, halted>>

-------------------------------------------------------------------------------
\* overdue: verification_deadline has passed.
NewAccount == [password |-> 0, verified |-> FALSE, overdue |-> FALSE]

\* proved: the password when the client proved who it is; opened: the password
\* when the row was inserted.  Neither is a column: they date the session.
NewSession(u, proved) ==
    [user |-> u, token |-> 0, revoked |-> FALSE, expired |-> FALSE,
     proved |-> proved, opened |-> account[u].password]

\* tokens: the refresh tokens it received; spent: those it exchanged for another;
\* missed: an answer with a newer one was lost or refused.
NewClient == [tokens |-> {}, spent |-> {}, missed |-> FALSE]

Idle == [stage |-> "idle"]

\* GetVerificationStatus: "expired".
IsLockedOut(u) == account[u].overdue /\ ~account[u].verified

IsActive(i) == ~session[i].revoked /\ ~session[i].expired

Init ==
    /\ account = [u \in {} |-> {}]
    /\ session = <<>>
    /\ client = <<>>
    /\ request = [r \in Requests |-> Idle]
    /\ halted = {}

Become(r, req) == request' = [request EXCEPT ![r] = req]

-------------------------------------------------------------------------------
(* Opening a session. *)

\* users.Register: the row is there before the session is.
Register(r, u) ==
    /\ request[r] = Idle
    /\ u \notin DOMAIN account
    /\ account' = [v \in DOMAIN account \cup {u} |->
                     IF v = u THEN NewAccount ELSE account[v]]
    /\ Become(r, [stage |-> "enter", user |-> u, proved |-> 0])
    /\ UNCHANGED <<session, client, halted>>

\* GetByEmail, ComparePassword and GetVerificationStatus, on one read of the row.
Login(r, u) ==
    /\ request[r] = Idle
    /\ u \in DOMAIN account
    /\ ~IsLockedOut(u)
    /\ Become(r, [stage |-> "enter", user |-> u, proved |-> account[u].password])
    /\ UNCHANGED <<account, session, client, halted>>

\* The handler has found the address unverified and VerifyOTPForUser has
\* accepted a code.
VerifyBegin(r, u) ==
    /\ request[r] = Idle
    /\ u \in DOMAIN account
    /\ ~account[u].verified
    /\ Become(r, [stage |-> "verify", user |-> u, proved |-> account[u].password])
    /\ UNCHANGED <<account, session, client, halted>>

MarkEmailVerified(r) ==
    /\ request[r].stage = "verify"
    /\ account' = [account EXCEPT ![request[r].user].verified = TRUE]
    /\ Become(r, [request[r] EXCEPT !.stage = "enter"])
    /\ UNCHANGED <<session, client, halted>>

\* sessions.Create.
CreateSession(r) ==
    /\ request[r].stage = "enter"
    /\ Len(session) < MaxSessions
    /\ session' = Append(session, NewSession(request[r].user, request[r].proved))
    /\ client' = Append(client, NewClient)
    /\ Become(r, [stage |-> "answer", session |-> Len(session) + 1, token |-> 0])
    /\ UNCHANGED <<account, halted>>

\* The client has the answer.
Answer(r) ==
    /\ request[r].stage = "answer"
    /\ client' = [client EXCEPT ![request[r].session].tokens = @ \cup {request[r].token}]
    /\ Become(r, Idle)
    /\ UNCHANGED <<account, session, halted>>

-------------------------------------------------------------------------------
(* Using a session. *)

\* Mutant: the old hash is not compared.
RefreshAnyToken(r, i, n) ==
    /\ request[r] = Idle
    /\ n \in client[i].tokens
    /\ IsActive(i)
    /\ session[i].token < MaxRefreshes
    /\ session' = [session EXCEPT ![i].token = @ + 1]
    /\ client' = [client EXCEPT ![i].spent = @ \cup {n}]
    /\ Become(r, [stage |-> "check", session |-> i, token |-> session[i].token + 1])
    /\ UNCHANGED <<account, halted>>

\* Mutant: the answer carries the token that was presented.
RefreshAnswersOld(r, i, n) ==
    /\ request[r] = Idle
    /\ n \in client[i].tokens
    /\ n = session[i].token
    /\ IsActive(i)
    /\ n < MaxRefreshes
    /\ session' = [session EXCEPT ![i].token = n + 1]
    /\ client' = [client EXCEPT ![i].spent = @ \cup {n}]
    /\ Become(r, [stage |-> "check", session |-> i, token |-> n])
    /\ UNCHANGED <<account, halted>>

\* RotateRefreshToken: one guarded UPDATE.  The client may present any token it
\* has ever received; one that does not match changes nothing.
Refresh(r, i, n) ==
    /\ request[r] = Idle
    /\ n \in client[i].tokens
    /\ n = session[i].token
    /\ IsActive(i)
    /\ n < MaxRefreshes
    /\ session' = [session EXCEPT ![i].token = n + 1]
    /\ client' = [client EXCEPT ![i].spent = @ \cup {n}]
    /\ Become(r, [stage |-> "check", session |-> i, token |-> n + 1])
    /\ UNCHANGED <<account, halted>>

\* The account is read after the token was replaced.
RefreshCheck(r) ==
    /\ request[r].stage = "check"
    /\ IF IsLockedOut(session[request[r].session].user)
       THEN /\ Become(r, Idle)
            /\ client' = [client EXCEPT ![request[r].session].missed = TRUE]
       ELSE /\ Become(r, [request[r] EXCEPT !.stage = "answer"])
            /\ UNCHANGED client
    /\ UNCHANGED <<account, session, halted>>

\* ValidateAccessSession, for a request to log out.
LogoutBegin(r, i) ==
    /\ request[r] = Idle
    /\ client[i].tokens # {}
    /\ IsActive(i)
    /\ Become(r, [stage |-> "revoke", session |-> i])
    /\ UNCHANGED <<account, session, client, halted>>

\* RevokeAuthSession.
Revoke(r) ==
    /\ request[r].stage = "revoke"
    /\ session' = [session EXCEPT ![request[r].session].revoked = TRUE]
    /\ Become(r, Idle)
    /\ UNCHANGED <<account, client, halted>>

-------------------------------------------------------------------------------
(* Resetting a password. *)

\* VerifyOTP has accepted a code.
ResetBegin(r, u) ==
    /\ request[r] = Idle
    /\ u \in DOMAIN account
    /\ Become(r, [stage |-> "update", user |-> u])
    /\ UNCHANGED <<account, session, client, halted>>

UpdatePassword(r) ==
    /\ request[r].stage = "update"
    /\ account[request[r].user].password < MaxPasswords
    /\ account' = [account EXCEPT ![request[r].user].password = @ + 1]
    /\ Become(r, [request[r] EXCEPT !.stage = "revokeAll"])
    /\ UNCHANGED <<session, client, halted>>

\* Mutant: only the newest session is revoked.
RevokeNewest(r) ==
    /\ request[r].stage = "revokeAll"
    /\ session' = [i \in DOMAIN session |->
         [session[i] EXCEPT !.revoked = @ \/ (session[i].user = request[r].user /\ i = Len(session))]]
    /\ halted' = halted \ {request[r].user}
    /\ Become(r, Idle)
    /\ UNCHANGED <<account, client>>

\* Mutant: only the sessions that were refreshed are revoked.
RevokeUsed(r) ==
    /\ request[r].stage = "revokeAll"
    /\ session' = [i \in DOMAIN session |->
         [session[i] EXCEPT !.revoked = @ \/ (session[i].user = request[r].user /\ session[i].token > 0)]]
    /\ halted' = halted \ {request[r].user}
    /\ Become(r, Idle)
    /\ UNCHANGED <<account, client>>

RevokeAllUserSessions(r) ==
    /\ request[r].stage = "revokeAll"
    /\ session' = [i \in DOMAIN session |->
         [session[i] EXCEPT !.revoked = @ \/ session[i].user = request[r].user]]
    /\ halted' = halted \ {request[r].user}
    /\ Become(r, Idle)
    /\ UNCHANGED <<account, client>>

-------------------------------------------------------------------------------
\* An error, a cancelled request, a lost answer or a crash ends a handler where it is.
Fail(r) ==
    /\ request[r] # Idle
    /\ Become(r, Idle)
    /\ client' = IF request[r].stage \in {"check", "answer"}
                 THEN [client EXCEPT ![request[r].session].missed = TRUE]
                 ELSE client
    /\ halted' = IF request[r].stage = "revokeAll" THEN halted \cup {request[r].user} ELSE halted
    /\ UNCHANGED <<account, session>>

SessionExpires(i) ==
    /\ ~session[i].expired
    /\ session' = [session EXCEPT ![i].expired = TRUE]
    /\ UNCHANGED <<account, client, request, halted>>

DeadlinePasses(u) ==
    /\ u \in DOMAIN account
    /\ ~account[u].overdue
    /\ account' = [account EXCEPT ![u].overdue = TRUE]
    /\ UNCHANGED <<session, client, request, halted>>

Enter(r) ==
    \/ \E u \in Users : Register(r, u) \/ Login(r, u) \/ VerifyBegin(r, u)
    \/ MarkEmailVerified(r)
    \/ CreateSession(r)
    \/ Answer(r)

Use(r) ==
    \/ \E i \in DOMAIN session :
         \/ \E n \in 0..MaxRefreshes : Refresh(r, i, n)
         \/ LogoutBegin(r, i)
    \/ RefreshCheck(r)
    \/ Revoke(r)

Reset(r) ==
    \/ \E u \in Users : ResetBegin(r, u)
    \/ UpdatePassword(r)
    \/ RevokeAllUserSessions(r)

Next ==
    \/ \E r \in Requests : Enter(r) \/ Use(r) \/ Reset(r) \/ Fail(r)
    \/ \E i \in DOMAIN session : SessionExpires(i)
    \/ \E u \in Users : DeadlinePasses(u)

Spec == Init /\ [][Next]_vars

-------------------------------------------------------------------------------
(* Properties. *)

\* Under way: a reset that has changed the password of u and not yet revoked.
Resetting(u) == \E r \in Requests : request[r] = [stage |-> "revokeAll", user |-> u]

\* Every refresh spends a token of its own: however refreshes overlap, with each
\* other, a logout or a reset, none is accepted twice.
TokensSpentOnce ==
    \A i \in DOMAIN session : session[i].token = Cardinality(client[i].spent)

\* A client can go on with its session as long as it received its answers: the
\* token that counts is one it has, or is on its way to it.
ClientsKeepUp ==
    \A i \in DOMAIN session :
      \/ session[i].token \in client[i].tokens
      \/ client[i].missed
      \/ \E r \in Requests : /\ request[r].stage \in {"check", "answer"}
                             /\ request[r].session = i
                             /\ request[r].token = session[i].token

\* No session that was there when the password changed outlives the reset, unless
\* the reset stopped halfway.
ResetsEndSessions ==
    \A i \in DOMAIN session :
      LET u == session[i].user
      IN  session[i].opened < account[u].password =>
            session[i].revoked \/ Resetting(u) \/ u \in halted

\* Sessions that an old password opened and that no reset ended: those of logins
\* that compared it before the change and inserted their row after the revocation.
Stray(u, password) ==
    {i \in DOMAIN session :
       /\ session[i].user = u
       /\ session[i].proved = password
       /\ password < account[u].password
       /\ ~session[i].revoked}

\* An old password opens nothing once a reset is done, but for the requests that
\* were under way beside the reset: none, where requests do not overlap.
OldPasswordsOpenLittle ==
    \A u \in DOMAIN account :
      u \in halted \/ Resetting(u) \/
        \A password \in 0..MaxPasswords :
          Cardinality(Stray(u, password)) < Cardinality(Requests)
===============================================================================
