---------------------------- MODULE AccountsProofs ----------------------------
(***************************************************************************)
(* Theorems about Accounts, for any users and handlers and any bounds: the *)
(* four properties of its run.                                             *)
(***************************************************************************)
EXTENDS Accounts, FiniteSetTheorems, SequenceTheorems, TLAPS

-------------------------------------------------------------------------------
(* Types. *)

Account == [password : Nat, verified : BOOLEAN, overdue : BOOLEAN]

Session == [user : Users, token : Nat, revoked : BOOLEAN, expired : BOOLEAN,
            proved : Nat, opened : Nat]

Client == [tokens : SUBSET Nat, spent : SUBSET Nat, missed : BOOLEAN]

\* What a handler can be at, where these accounts and n sessions exist.
Entering(accounts) == [stage : {"verify", "enter"}, user : accounts, proved : Nat]
Answering(n) == [stage : {"check", "answer"}, session : 1..n, token : Nat]
Leaving(n) == [stage : {"revoke"}, session : 1..n]
Changing(accounts) == [stage : {"update", "revokeAll"}, user : accounts]

Handler(accounts, n) ==
    {Idle} \cup Entering(accounts) \cup Answering(n) \cup Leaving(n) \cup Changing(accounts)

AccountsOK == account \in [DOMAIN account -> Account] /\ DOMAIN account \subseteq Users

SessionsOK ==
    /\ session \in Seq(Session)
    /\ client \in Seq(Client)
    /\ Len(client) = Len(session)
    /\ \A i \in DOMAIN session : session[i].user \in DOMAIN account

RequestsOK == request \in [Requests -> Handler(DOMAIN account, Len(session))]

TypeOK == AccountsOK /\ SessionsOK /\ RequestsOK

\* The tables as functions from positions to rows.
LEMMA Tables ==
  ASSUME TypeOK
  PROVE  /\ Len(session) \in Nat
         /\ DOMAIN session = 1..Len(session) /\ DOMAIN client = DOMAIN session
         /\ session \in [DOMAIN session -> Session]
         /\ client \in [DOMAIN session -> Client]
  BY LenProperties DEF TypeOK, SessionsOK

\* To update rows in place is to keep their number.
LEMMA RowsUpdated ==
  ASSUME TypeOK, NEW S, NEW rows \in [DOMAIN session -> S]
  PROVE  rows \in Seq(S) /\ DOMAIN rows = DOMAIN session /\ Len(rows) = Len(session)
<1>1. DOMAIN session = 1..Len(session) /\ Len(session) \in Nat
  BY Tables
<1>2. rows \in [1..Len(session) -> S]
  BY <1>1
<1>3. rows \in Seq(S) /\ Len(rows) = Len(session)
  BY <1>1, <1>2, SeqDef
<1> QED
  BY <1>1, <1>2, <1>3

\* Handlers stay what they are when accounts and sessions are added.
LEMMA HandlersStay ==
  ASSUME NEW A, NEW B, A \subseteq B, NEW n \in Nat, NEW m \in Nat, n <= m
  PROVE  Handler(A, n) \subseteq Handler(B, m)
<1>1. 1..n \subseteq 1..m
  OBVIOUS
<1>2. Entering(A) \subseteq Entering(B) /\ Changing(A) \subseteq Changing(B)
  BY DEF Entering, Changing
<1>3. Answering(n) \subseteq Answering(m) /\ Leaving(n) \subseteq Leaving(m)
  BY <1>1 DEF Answering, Leaving
<1> QED
  BY <1>2, <1>3 DEF Handler

\* One handler changes, and the others do not.
LEMMA Becomes ==
  ASSUME TypeOK, NEW r \in Requests, NEW req, Become(r, req)
  PROVE  /\ request'[r] = req
         /\ \A q \in Requests \ {r} : request'[q] = request[q]
  BY DEF Become, TypeOK, RequestsOK

LEMMA BecomesOK ==
  ASSUME TypeOK, NEW r \in Requests, NEW req \in Handler(DOMAIN account', Len(session')),
         Become(r, req), DOMAIN account \subseteq DOMAIN account',
         Len(session') \in Nat, Len(session) <= Len(session')
  PROVE  RequestsOK'
<1>1. Handler(DOMAIN account, Len(session)) \subseteq Handler(DOMAIN account', Len(session'))
  BY Tables, HandlersStay
<1> QED
  BY <1>1 DEF Become, TypeOK, RequestsOK

-------------------------------------------------------------------------------
(* What the steps do.  Each lemma also says that types are kept. *)

\* A handler that begins, or ends without having changed anything, changes itself.
LEMMA Quiet ==
  ASSUME TypeOK, NEW r \in Requests, NEW req \in Handler(DOMAIN account, Len(session)),
         Become(r, req), UNCHANGED <<account, session, client>>
  PROVE  TypeOK'
<1>1. RequestsOK'
  BY Tables, BecomesOK
<1> QED
  BY <1>1 DEF TypeOK, AccountsOK, SessionsOK

\* The steps that change accounts keep and add them.
LEMMA AccountStep ==
  ASSUME TypeOK, NEW r \in Requests, NEW req \in Handler(DOMAIN account', Len(session)),
         Become(r, req), UNCHANGED <<session, client>>,
         AccountsOK', DOMAIN account \subseteq DOMAIN account'
  PROVE  TypeOK'
<1>1. RequestsOK'
  BY Tables, BecomesOK
<1>2. SessionsOK'
  BY Tables DEF TypeOK, SessionsOK
<1> QED
  BY <1>1, <1>2 DEF TypeOK

\* The steps that change sessions in place keep their users.
LEMMA SessionStep ==
  ASSUME TypeOK, NEW r \in Requests, NEW req \in Handler(DOMAIN account, Len(session)),
         Become(r, req), UNCHANGED account,
         session' \in [DOMAIN session -> Session], client' \in [DOMAIN session -> Client],
         \A i \in DOMAIN session : session'[i].user = session[i].user
  PROVE  TypeOK' /\ DOMAIN session' = DOMAIN session /\ Len(session') = Len(session)
<1>1. /\ session' \in Seq(Session) /\ Len(session') = Len(session)
      /\ client' \in Seq(Client) /\ Len(client') = Len(session)
      /\ DOMAIN session' = DOMAIN session
  BY RowsUpdated
<1>2. SessionsOK'
  BY <1>1 DEF TypeOK, SessionsOK
<1>3. RequestsOK'
  BY <1>1, Tables, BecomesOK
<1> QED
  BY <1>1, <1>2, <1>3 DEF TypeOK, AccountsOK

\* No password changes; who registers has the first one.
PasswordsKept ==
    /\ DOMAIN account \subseteq DOMAIN account'
    /\ \A v \in DOMAIN account' :
         account'[v].password = IF v \in DOMAIN account THEN account[v].password ELSE 0

\* No token is spent, and what happened to a session is not undone.
RowsKept ==
    /\ DOMAIN session' = DOMAIN session
    /\ \A i \in DOMAIN session :
         /\ session'[i].user = session[i].user
         /\ session'[i].token = session[i].token
         /\ session'[i].proved = session[i].proved
         /\ session'[i].opened = session[i].opened
         /\ session[i].revoked => session'[i].revoked
         /\ client'[i].spent = client[i].spent
         /\ client[i].tokens \subseteq client'[i].tokens
         /\ client[i].missed => client'[i].missed

\* Who is to be answered is, or misses the answer.
Arrives(q) ==
    request[q].stage \in {"check", "answer"} =>
      \/ /\ request'[q].stage \in {"check", "answer"}
         /\ request'[q].session = request[q].session
         /\ request'[q].token = request[q].token
      \/ request[q].token \in client'[request[q].session].tokens
      \/ client'[request[q].session].missed

\* A reset that is given up leaves its user halted.
GivesUp(q) == request[q].stage = "revokeAll" => request[q].user \in halted'

\* Who enters has proved to know the password, or was already entering.
Proves(q) ==
    request'[q].stage \in {"verify", "enter"} =>
      \/ request'[q].proved = account'[request'[q].user].password
      \/ /\ request[q].stage \in {"verify", "enter"}
         /\ request'[q].user = request[q].user
         /\ request'[q].proved = request[q].proved

\* The steps that neither change a password nor open, refresh or end all sessions.
Plain ==
    /\ TypeOK' /\ PasswordsKept /\ RowsKept
    /\ \A q \in Requests :
         request'[q] = request[q] \/ (Arrives(q) /\ GivesUp(q) /\ Proves(q))
    /\ halted \subseteq halted'

\* Plain steps of one handler.
LEMMA PlainHandler ==
  ASSUME TypeOK, NEW r \in Requests, NEW req, Become(r, req),
         TypeOK', PasswordsKept, RowsKept, halted \subseteq halted',
         Arrives(r), GivesUp(r), Proves(r)
  PROVE  Plain
  BY Becomes DEF Plain

LEMMA NothingChanges ==
  ASSUME TypeOK, UNCHANGED <<account, session, client>>
  PROVE  PasswordsKept /\ RowsKept
  BY DEF PasswordsKept, RowsKept

\* The beginnings.
LEMMA RegisterIsPlain ==
  ASSUME TypeOK, NEW r \in Requests, NEW u \in Users, Register(r, u)
  PROVE  Plain
<1> DEFINE req == [stage |-> "enter", user |-> u, proved |-> 0]
<1>1. /\ request[r] = Idle /\ u \notin DOMAIN account
      /\ account' = [v \in DOMAIN account \cup {u} |-> IF v = u THEN NewAccount ELSE account[v]]
      /\ Become(r, req) /\ UNCHANGED <<session, client, halted>>
  BY DEF Register
<1>2. NewAccount \in Account /\ NewAccount.password = 0
  BY DEF NewAccount, Account
<1>3. /\ AccountsOK' /\ DOMAIN account' = DOMAIN account \cup {u} /\ account'[u] = NewAccount
      /\ \A v \in DOMAIN account : account'[v] = account[v]
  BY <1>1, <1>2 DEF TypeOK, AccountsOK
<1>4. req \in Handler(DOMAIN account', Len(session))
  BY <1>3 DEF Handler, Entering
<1>5. TypeOK'
  BY <1>1, <1>3, <1>4, AccountStep
<1>6. PasswordsKept /\ RowsKept
  BY <1>1, <1>2, <1>3 DEF PasswordsKept, RowsKept
<1>7. request'[r] = req
  BY <1>1, Becomes
<1>8. Arrives(r) /\ GivesUp(r) /\ Proves(r)
  BY <1>1, <1>2, <1>3, <1>7 DEF Arrives, GivesUp, Proves, Idle
<1> QED
  BY <1>1, <1>5, <1>6, <1>8, PlainHandler

LEMMA LoginIsPlain ==
  ASSUME TypeOK, NEW r \in Requests, NEW u \in Users, Login(r, u) \/ VerifyBegin(r, u)
  PROVE  Plain
<1>1. PICK stage \in {"verify", "enter"} :
        /\ request[r] = Idle /\ u \in DOMAIN account
        /\ Become(r, [stage |-> stage, user |-> u, proved |-> account[u].password])
        /\ UNCHANGED <<account, session, client, halted>>
  BY DEF Login, VerifyBegin
<1> DEFINE req == [stage |-> stage, user |-> u, proved |-> account[u].password]
<1>2. req \in Handler(DOMAIN account, Len(session))
  BY <1>1 DEF Handler, Entering, TypeOK, AccountsOK, Account
<1>3. TypeOK' /\ PasswordsKept /\ RowsKept
  BY <1>1, <1>2, Quiet, NothingChanges
<1>4. request'[r] = req
  BY <1>1, Becomes
<1>5. Arrives(r) /\ GivesUp(r) /\ Proves(r)
  BY <1>1, <1>4 DEF Arrives, GivesUp, Proves, Idle
<1> QED
  BY <1>1, <1>3, <1>5, PlainHandler

LEMMA OthersBeginPlainly ==
  ASSUME TypeOK, NEW r \in Requests,
         \/ \E u \in Users : ResetBegin(r, u)
         \/ \E i \in DOMAIN session : LogoutBegin(r, i)
  PROVE  Plain
<1>1. PICK req \in Changing(DOMAIN account) \cup Leaving(Len(session)) :
        /\ request[r] = Idle /\ Become(r, req)
        /\ UNCHANGED <<account, session, client, halted>>
  <2>1. ASSUME NEW u \in Users, ResetBegin(r, u)
        PROVE  [stage |-> "update", user |-> u] \in Changing(DOMAIN account)
    BY <2>1 DEF ResetBegin, Changing
  <2>2. ASSUME NEW i \in DOMAIN session
        PROVE  [stage |-> "revoke", session |-> i] \in Leaving(Len(session))
    BY Tables DEF Leaving
  <2> QED
    BY <2>1, <2>2 DEF ResetBegin, LogoutBegin
<1>2. TypeOK' /\ PasswordsKept /\ RowsKept
  BY <1>1, Quiet, NothingChanges DEF Handler
<1>3. request'[r] = req
  BY <1>1, Becomes
<1>4. Arrives(r) /\ GivesUp(r) /\ Proves(r)
  BY <1>1, <1>3 DEF Arrives, GivesUp, Proves, Idle, Changing, Leaving
<1> QED
  BY <1>1, <1>2, <1>4, PlainHandler

\* What a handler at some stage remembers.
LEMMA StageTells ==
  ASSUME TypeOK, NEW r \in Requests
  PROVE  /\ request[r].stage \in {"verify", "enter"} => request[r] \in Entering(DOMAIN account)
         /\ request[r].stage \in {"check", "answer"} => request[r] \in Answering(Len(session))
         /\ request[r].stage = "revoke" => request[r] \in Leaving(Len(session))
         /\ request[r].stage \in {"update", "revokeAll"} => request[r] \in Changing(DOMAIN account)
  BY DEF TypeOK, RequestsOK, Handler, Entering, Answering, Leaving, Changing, Idle

\* The steps of time.
LEMMA TimeIsPlain ==
  ASSUME TypeOK,
         \/ \E i \in DOMAIN session : SessionExpires(i)
         \/ \E u \in Users : DeadlinePasses(u)
  PROVE  Plain
<1>1. ASSUME NEW i \in DOMAIN session, SessionExpires(i) PROVE Plain
  <2> DEFINE row == [session[i] EXCEPT !.expired = TRUE]
  <2>1. session' = [session EXCEPT ![i] = row] /\ UNCHANGED <<account, client, request, halted>>
    BY <1>1 DEF SessionExpires
  <2>2. session[i] \in Session
    BY Tables
  <2>3. /\ row \in Session /\ row.user = session[i].user /\ row.token = session[i].token
        /\ row.proved = session[i].proved /\ row.opened = session[i].opened
        /\ row.revoked = session[i].revoked
    BY <2>2 DEF Session
  <2> HIDE DEF row
  <2>4. /\ session' \in [DOMAIN session -> Session]
        /\ \A j \in DOMAIN session : session'[j] = IF j = i THEN row ELSE session[j]
    BY <2>1, <2>3, Tables
  <2>5. PasswordsKept /\ RowsKept
    BY <2>1, <2>3, <2>4 DEF PasswordsKept, RowsKept
  <2>6. session' \in Seq(Session) /\ Len(session') = Len(session)
    BY <2>4, RowsUpdated
  <2>7. TypeOK'
    BY <2>1, <2>5, <2>6 DEF TypeOK, AccountsOK, SessionsOK, RequestsOK, RowsKept
  <2> QED
    BY <2>1, <2>5, <2>7 DEF Plain
<1>2. ASSUME NEW u \in Users, DeadlinePasses(u) PROVE Plain
  <2> DEFINE row == [account[u] EXCEPT !.overdue = TRUE]
  <2>1. /\ u \in DOMAIN account /\ account' = [account EXCEPT ![u] = row]
        /\ UNCHANGED <<session, client, request, halted>>
    BY <1>2 DEF DeadlinePasses
  <2>2. row \in Account /\ row.password = account[u].password
    BY <2>1 DEF TypeOK, AccountsOK, Account
  <2> HIDE DEF row
  <2>3. /\ AccountsOK' /\ DOMAIN account' = DOMAIN account
        /\ \A v \in DOMAIN account : account'[v] = IF v = u THEN row ELSE account[v]
    BY <2>1, <2>2 DEF TypeOK, AccountsOK
  <2>4. TypeOK'
    BY <2>1, <2>3 DEF TypeOK, SessionsOK, RequestsOK
  <2>5. PasswordsKept /\ RowsKept
    BY <2>1, <2>2, <2>3 DEF PasswordsKept, RowsKept
  <2> QED
    BY <2>1, <2>4, <2>5 DEF Plain
<1> QED
  BY <1>1, <1>2

LEMMA MarkEmailVerifiedIsPlain ==
  ASSUME TypeOK, NEW r \in Requests, MarkEmailVerified(r)
  PROVE  Plain
<1> DEFINE u == request[r].user
           row == [account[u] EXCEPT !.verified = TRUE]
           req == [request[r] EXCEPT !.stage = "enter"]
<1>1. /\ request[r].stage = "verify" /\ account' = [account EXCEPT ![u] = row]
      /\ Become(r, req) /\ UNCHANGED <<session, client, halted>>
  BY DEF MarkEmailVerified
<1>2. request[r] \in Entering(DOMAIN account)
  BY <1>1, StageTells
<1>3. /\ u \in DOMAIN account /\ row \in Account /\ row.password = account[u].password
      /\ req \in Entering(DOMAIN account)
      /\ req.stage = "enter" /\ req.user = u /\ req.proved = request[r].proved
  BY <1>2 DEF Entering, TypeOK, AccountsOK, Account
<1> HIDE DEF row, req
<1>4. /\ AccountsOK' /\ DOMAIN account' = DOMAIN account
      /\ \A v \in DOMAIN account : account'[v] = IF v = u THEN row ELSE account[v]
  BY <1>1, <1>3 DEF TypeOK, AccountsOK
<1>5. TypeOK'
  <2>1. req \in Handler(DOMAIN account', Len(session))
    BY <1>3, <1>4 DEF Handler
  <2> QED
    BY <1>1, <1>4, <2>1, AccountStep
<1>6. PasswordsKept /\ RowsKept
  BY <1>1, <1>3, <1>4 DEF PasswordsKept, RowsKept
<1>7. request'[r] = req
  BY <1>1, Becomes
<1>8. Arrives(r) /\ GivesUp(r) /\ Proves(r)
  BY <1>1, <1>3, <1>7 DEF Arrives, GivesUp, Proves
<1> QED
  BY <1>1, <1>5, <1>6, <1>8, PlainHandler

\* The steps that tell a client something, or that it has missed something.
LEMMA ClientStep ==
  ASSUME TypeOK, NEW r \in Requests, NEW req \in Handler(DOMAIN account, Len(session)),
         Become(r, req), UNCHANGED <<account, session>>,
         NEW i \in DOMAIN session, NEW told \in Client, client' = [client EXCEPT ![i] = told],
         told.spent = client[i].spent, client[i].tokens \subseteq told.tokens,
         client[i].missed => told.missed
  PROVE  TypeOK' /\ PasswordsKept /\ RowsKept /\ client'[i] = told
<1>1. /\ client' \in [DOMAIN session -> Client] /\ client'[i] = told
      /\ \A j \in DOMAIN session : client'[j] = IF j = i THEN told ELSE client[j]
  BY Tables
<1>2. session' \in [DOMAIN session -> Session]
  BY Tables
<1>3. TypeOK'
  BY <1>1, <1>2, SessionStep
<1>4. PasswordsKept /\ RowsKept
  BY <1>1 DEF PasswordsKept, RowsKept
<1> QED
  BY <1>1, <1>3, <1>4

LEMMA AnswerIsPlain ==
  ASSUME TypeOK, NEW r \in Requests, Answer(r)
  PROVE  Plain
<1> DEFINE i == request[r].session
           told == [client[i] EXCEPT !.tokens = @ \cup {request[r].token}]
<1>1. /\ request[r].stage = "answer" /\ client' = [client EXCEPT ![i] = told]
      /\ Become(r, Idle) /\ UNCHANGED <<account, session, halted>>
  BY DEF Answer
<1>2. i \in DOMAIN session /\ request[r].token \in Nat
  BY <1>1, StageTells, Tables DEF Answering
<1>3. client[i] \in Client
  BY <1>2, Tables
<1>4. /\ told \in Client /\ told.spent = client[i].spent /\ told.missed = client[i].missed
      /\ told.tokens = client[i].tokens \cup {request[r].token}
  <2>1. PICK tokens : tokens = client[i].tokens \cup {request[r].token}
    OBVIOUS
  <2>2. tokens \in SUBSET Nat /\ told = [client[i] EXCEPT !.tokens = tokens]
    BY <1>2, <1>3, <2>1 DEF Client
  <2> HIDE DEF told
  <2> QED
    BY <1>3, <2>1, <2>2 DEF Client
<1>5. Idle \in Handler(DOMAIN account, Len(session))
  BY DEF Handler
<1> HIDE DEF told
<1>6. TypeOK' /\ PasswordsKept /\ RowsKept /\ client'[i] = told
  BY <1>1, <1>2, <1>4, <1>5, ClientStep
<1>7. request'[r] = Idle
  BY <1>1, Becomes
<1>8. Arrives(r) /\ GivesUp(r) /\ Proves(r)
  BY <1>1, <1>4, <1>6, <1>7 DEF Arrives, GivesUp, Proves, Idle
<1> QED
  BY <1>1, <1>6, <1>8, PlainHandler

\* A handler that ends before its answer leaves the client without it.
LEMMA Misses ==
  ASSUME TypeOK, NEW r \in Requests, request[r].stage \in {"check", "answer"},
         client' = [client EXCEPT ![request[r].session].missed = TRUE],
         Become(r, Idle), UNCHANGED <<account, session, halted>>
  PROVE  Plain
<1> DEFINE i == request[r].session
           told == [client[i] EXCEPT !.missed = TRUE]
<1>1. i \in DOMAIN session
  BY StageTells, Tables DEF Answering
<1>2. client[i] \in Client /\ client' = [client EXCEPT ![i] = told]
  BY <1>1, Tables
<1>3. /\ told \in Client /\ told.spent = client[i].spent /\ told.missed
      /\ told.tokens = client[i].tokens
  BY <1>2 DEF Client
<1>4. Idle \in Handler(DOMAIN account, Len(session))
  BY DEF Handler
<1> HIDE DEF told
<1>5. TypeOK' /\ PasswordsKept /\ RowsKept /\ client'[i] = told
  BY <1>1, <1>2, <1>3, <1>4, ClientStep
<1>6. request'[r] = Idle
  BY Becomes
<1>7. Arrives(r) /\ GivesUp(r) /\ Proves(r)
  BY <1>3, <1>5, <1>6 DEF Arrives, GivesUp, Proves, Idle
<1> QED
  BY <1>5, <1>7, PlainHandler

LEMMA RefreshCheckIsPlain ==
  ASSUME TypeOK, NEW r \in Requests, RefreshCheck(r)
  PROVE  Plain
<1>1. request[r].stage = "check" /\ UNCHANGED <<account, session, halted>>
  BY DEF RefreshCheck
<1>2. CASE /\ Become(r, Idle)
           /\ client' = [client EXCEPT ![request[r].session].missed = TRUE]
  BY <1>1, <1>2, Misses
<1>3. CASE Become(r, [request[r] EXCEPT !.stage = "answer"]) /\ UNCHANGED client
  <2> DEFINE req == [request[r] EXCEPT !.stage = "answer"]
  <2>1. /\ req \in Answering(Len(session)) /\ req.stage = "answer"
        /\ req.session = request[r].session /\ req.token = request[r].token
    BY <1>1, StageTells DEF Answering
  <2> HIDE DEF req
  <2>2. TypeOK' /\ PasswordsKept /\ RowsKept
    BY <1>1, <1>3, <2>1, Quiet, NothingChanges DEF Handler, req
  <2>3. request'[r] = req
    BY <1>3, Becomes DEF req
  <2>4. Arrives(r) /\ GivesUp(r) /\ Proves(r)
    BY <1>1, <2>1, <2>3 DEF Arrives, GivesUp, Proves
  <2> QED
    BY <1>1, <1>3, <2>2, <2>4, PlainHandler
<1> QED
  BY <1>2, <1>3 DEF RefreshCheck

LEMMA RevokeIsPlain ==
  ASSUME TypeOK, NEW r \in Requests, Revoke(r)
  PROVE  Plain
<1> DEFINE i == request[r].session
           row == [session[i] EXCEPT !.revoked = TRUE]
<1>1. /\ request[r].stage = "revoke" /\ session' = [session EXCEPT ![i] = row]
      /\ Become(r, Idle) /\ UNCHANGED <<account, client, halted>>
  BY DEF Revoke
<1>2. i \in DOMAIN session
  BY <1>1, StageTells, Tables DEF Leaving
<1>3. session[i] \in Session
  BY <1>2, Tables
<1>4. /\ row \in Session /\ row.user = session[i].user /\ row.token = session[i].token
      /\ row.proved = session[i].proved /\ row.opened = session[i].opened /\ row.revoked
  BY <1>3 DEF Session
<1> HIDE DEF row
<1>5. /\ session' \in [DOMAIN session -> Session]
      /\ client' \in [DOMAIN session -> Client]
      /\ DOMAIN session' = DOMAIN session
      /\ \A j \in DOMAIN session : session'[j] = IF j = i THEN row ELSE session[j]
  BY <1>1, <1>4, Tables
<1>6. Idle \in Handler(DOMAIN account, Len(session))
  BY DEF Handler
<1>7. PasswordsKept /\ RowsKept
  BY <1>1, <1>4, <1>5 DEF PasswordsKept, RowsKept
<1>8. TypeOK'
  BY <1>1, <1>5, <1>6, <1>7, SessionStep DEF RowsKept
<1>9. request'[r] = Idle
  BY <1>1, Becomes
<1>10. Arrives(r) /\ GivesUp(r) /\ Proves(r)
  BY <1>1, <1>9 DEF Arrives, GivesUp, Proves, Idle
<1> QED
  BY <1>1, <1>7, <1>8, <1>10, PlainHandler

LEMMA FailIsPlain ==
  ASSUME TypeOK, NEW r \in Requests, Fail(r)
  PROVE  Plain
<1>1. Become(r, Idle) /\ UNCHANGED <<account, session>>
  BY DEF Fail
<1>2. CASE request[r].stage \in {"check", "answer"}
  <2>1. /\ client' = [client EXCEPT ![request[r].session].missed = TRUE]
        /\ halted' = halted
    BY <1>2 DEF Fail
  <2> QED
    BY <1>1, <1>2, <2>1, Misses
<1>3. CASE request[r].stage \notin {"check", "answer"}
  <2>1. /\ client' = client
        /\ halted' = IF request[r].stage = "revokeAll" THEN halted \cup {request[r].user}
                     ELSE halted
    BY <1>3 DEF Fail
  <2>2. Idle \in Handler(DOMAIN account, Len(session))
    BY DEF Handler
  <2>3. TypeOK' /\ PasswordsKept /\ RowsKept
    BY <1>1, <2>1, <2>2, Quiet, NothingChanges
  <2>4. request'[r] = Idle
    BY <1>1, Becomes
  <2>5. Arrives(r) /\ GivesUp(r) /\ Proves(r)
    BY <1>3, <2>1, <2>4 DEF Arrives, GivesUp, Proves, Idle
  <2> QED
    BY <1>1, <2>1, <2>3, <2>5, PlainHandler
<1> QED
  BY <1>2, <1>3

LEMMA CreateSessionDoes ==
  ASSUME TypeOK, NEW r \in Requests, CreateSession(r)
  PROVE  LET row == NewSession(request[r].user, request[r].proved)
             n == Len(session) + 1
         IN  /\ TypeOK' /\ UNCHANGED <<account, halted>>
             /\ request[r] \in Entering(DOMAIN account)
             /\ DOMAIN session' = DOMAIN session \cup {n} /\ n \notin DOMAIN session
             /\ session'[n] = row /\ client'[n] = NewClient
             /\ \A i \in DOMAIN session : session'[i] = session[i] /\ client'[i] = client[i]
             /\ request'[r] = [stage |-> "answer", session |-> n, token |-> 0]
             /\ \A q \in Requests \ {r} : request'[q] = request[q]
<1> DEFINE row == NewSession(request[r].user, request[r].proved)
           n == Len(session) + 1
           req == [stage |-> "answer", session |-> n, token |-> 0]
<1>1. /\ request[r].stage = "enter"
      /\ session' = Append(session, row) /\ client' = Append(client, NewClient)
      /\ Become(r, req) /\ UNCHANGED <<account, halted>>
  BY DEF CreateSession
<1>2. request[r] \in Entering(DOMAIN account)
  BY <1>1, StageTells
<1>3. row \in Session /\ row.user \in DOMAIN account /\ NewClient \in Client
  BY <1>2 DEF NewSession, NewClient, Session, Client, Entering, TypeOK, AccountsOK, Account
<1> HIDE DEF row
<1>4. /\ session \in Seq(Session) /\ client \in Seq(Client) /\ Len(client) = Len(session)
      /\ Len(session) \in Nat
  BY DEF TypeOK, SessionsOK
<1>5. /\ session' \in Seq(Session) /\ Len(session') = n /\ session'[n] = row
      /\ \A i \in 1..Len(session) : session'[i] = session[i]
  BY <1>1, <1>3, <1>4
<1>6. /\ client' \in Seq(Client) /\ Len(client') = n /\ client'[n] = NewClient
      /\ \A i \in 1..Len(session) : client'[i] = client[i]
  BY <1>1, <1>3, <1>4
<1>7. /\ DOMAIN session = 1..Len(session) /\ DOMAIN session' = 1..n
      /\ DOMAIN session' = DOMAIN session \cup {n} /\ n \notin DOMAIN session
  BY <1>4, <1>5
<1>8. SessionsOK'
  <2>1. \A i \in DOMAIN session' : session'[i].user \in DOMAIN account
    BY <1>3, <1>5, <1>7 DEF TypeOK, SessionsOK
  <2> QED
    BY <1>1, <1>5, <1>6, <2>1 DEF SessionsOK
<1>9. req \in Handler(DOMAIN account', Len(session'))
  BY <1>4, <1>5 DEF Handler, Answering
<1>10. RequestsOK'
  BY <1>1, <1>4, <1>5, <1>9, BecomesOK
<1>11. TypeOK'
  BY <1>1, <1>8, <1>10 DEF TypeOK, AccountsOK
<1>12. request'[r] = req /\ \A q \in Requests \ {r} : request'[q] = request[q]
  BY <1>1, Becomes
<1> QED
  BY <1>1, <1>2, <1>5, <1>6, <1>7, <1>11, <1>12 DEF row

Refreshed(r, i, n) ==
    /\ TypeOK' /\ UNCHANGED <<account, halted>> /\ DOMAIN session' = DOMAIN session
    /\ n = session[i].token /\ request[r] = Idle
    /\ session'[i] = [session[i] EXCEPT !.token = n + 1]
    /\ client'[i] = [client[i] EXCEPT !.spent = @ \cup {n}]
    /\ \A j \in DOMAIN session \ {i} : session'[j] = session[j] /\ client'[j] = client[j]
    /\ request'[r] = [stage |-> "check", session |-> i, token |-> n + 1]
    /\ \A q \in Requests \ {r} : request'[q] = request[q]

LEMMA RefreshDoes ==
  ASSUME TypeOK, NEW r \in Requests, NEW i \in DOMAIN session, NEW n \in 0..MaxRefreshes,
         Refresh(r, i, n)
  PROVE  Refreshed(r, i, n)
<1> DEFINE row == [session[i] EXCEPT !.token = n + 1]
           told == [client[i] EXCEPT !.spent = @ \cup {n}]
           req == [stage |-> "check", session |-> i, token |-> n + 1]
<1>1. /\ n = session[i].token /\ request[r] = Idle
      /\ session' = [session EXCEPT ![i] = row] /\ client' = [client EXCEPT ![i] = told]
      /\ Become(r, req) /\ UNCHANGED <<account, halted>>
  BY DEF Refresh
<1>2. session[i] \in Session /\ client[i] \in Client /\ n \in Nat /\ n + 1 \in Nat
  BY Tables, AccountsAssumption
<1>3. row \in Session /\ row.user = session[i].user
  BY <1>2 DEF Session
<1>4. told \in Client
  BY <1>2 DEF Client
<1> HIDE DEF row, told
<1>5. /\ session' \in [DOMAIN session -> Session] /\ client' \in [DOMAIN session -> Client]
      /\ session'[i] = row /\ client'[i] = told
      /\ \A j \in DOMAIN session \ {i} : session'[j] = session[j] /\ client'[j] = client[j]
  BY <1>1, <1>3, <1>4, Tables
<1>6. req \in Handler(DOMAIN account, Len(session))
  BY <1>2, Tables DEF Handler, Answering
<1>7. TypeOK' /\ DOMAIN session' = DOMAIN session
  <2>1. \A j \in DOMAIN session : session'[j].user = session[j].user
    BY <1>3, <1>5
  <2> HIDE DEF req
  <2> QED
    BY <1>1, <1>5, <1>6, <2>1, SessionStep
<1>8. request'[r] = req /\ \A q \in Requests \ {r} : request'[q] = request[q]
  BY <1>1, Becomes
<1> QED
  BY <1>1, <1>5, <1>7, <1>8 DEF row, told, Refreshed

LEMMA UpdatePasswordDoes ==
  ASSUME TypeOK, NEW r \in Requests, UpdatePassword(r)
  PROVE  /\ TypeOK' /\ UNCHANGED <<session, client, halted>>
         /\ request[r] \in Changing(DOMAIN account) /\ DOMAIN account' = DOMAIN account
         /\ \A v \in DOMAIN account : v # request[r].user => account'[v] = account[v]
         /\ request'[r] = [stage |-> "revokeAll", user |-> request[r].user]
         /\ \A q \in Requests \ {r} : request'[q] = request[q]
<1> DEFINE u == request[r].user
           row == [account[u] EXCEPT !.password = @ + 1]
           req == [stage |-> "revokeAll", user |-> u]
<1>1. /\ request[r].stage = "update" /\ account' = [account EXCEPT ![u] = row]
      /\ Become(r, [request[r] EXCEPT !.stage = "revokeAll"])
      /\ UNCHANGED <<session, client, halted>>
  BY DEF UpdatePassword
<1>2. request[r] \in Changing(DOMAIN account)
  BY <1>1, StageTells
<1>3. /\ u \in DOMAIN account /\ row \in Account
      /\ [request[r] EXCEPT !.stage = "revokeAll"] = req
      /\ req \in Changing(DOMAIN account)
  BY <1>2 DEF Changing, TypeOK, AccountsOK, Account
<1> HIDE DEF row, req
<1>4. /\ AccountsOK' /\ DOMAIN account' = DOMAIN account
      /\ \A v \in DOMAIN account : account'[v] = IF v = u THEN row ELSE account[v]
  BY <1>1, <1>3 DEF TypeOK, AccountsOK
<1>5. TypeOK'
  <2>1. req \in Handler(DOMAIN account', Len(session))
    BY <1>3, <1>4 DEF Handler
  <2> QED
    BY <1>1, <1>3, <1>4, <2>1, AccountStep
<1>6. request'[r] = req /\ \A q \in Requests \ {r} : request'[q] = request[q]
  BY <1>1, <1>3, Becomes
<1> QED
  BY <1>1, <1>2, <1>4, <1>5, <1>6 DEF req

LEMMA RevokeAllDoes ==
  ASSUME TypeOK, NEW r \in Requests, RevokeAllUserSessions(r)
  PROVE  /\ TypeOK' /\ UNCHANGED <<account, client>> /\ DOMAIN session' = DOMAIN session
         /\ halted' = halted \ {request[r].user}
         /\ request[r] = [stage |-> "revokeAll", user |-> request[r].user]
         /\ \A i \in DOMAIN session :
              session'[i] = [session[i] EXCEPT !.revoked = @ \/ session[i].user = request[r].user]
         /\ request'[r] = Idle
         /\ \A q \in Requests \ {r} : request'[q] = request[q]
<1> DEFINE row(i) == [session[i] EXCEPT !.revoked = @ \/ session[i].user = request[r].user]
<1>1. /\ request[r].stage = "revokeAll" /\ session' = [i \in DOMAIN session |-> row(i)]
      /\ halted' = halted \ {request[r].user}
      /\ Become(r, Idle) /\ UNCHANGED <<account, client>>
  BY DEF RevokeAllUserSessions
<1>2. \A i \in DOMAIN session : session[i] \in Session
  BY Tables
<1>3. \A i \in DOMAIN session : row(i) \in Session /\ row(i).user = session[i].user
  BY <1>2 DEF Session
<1>4. request[r] = [stage |-> "revokeAll", user |-> request[r].user]
  BY <1>1, StageTells DEF Changing
<1>5. \A i \in DOMAIN session : session'[i] = row(i)
  BY <1>1
<1> HIDE DEF row
<1>6. session' \in [DOMAIN session -> Session] /\ client' \in [DOMAIN session -> Client]
  BY <1>1, <1>3, Tables
<1>7. Idle \in Handler(DOMAIN account, Len(session))
  BY DEF Handler
<1>8. TypeOK' /\ DOMAIN session' = DOMAIN session
  BY <1>1, <1>3, <1>5, <1>6, <1>7, SessionStep
<1>9. request'[r] = Idle /\ \A q \in Requests \ {r} : request'[q] = request[q]
  BY <1>1, Becomes
<1> QED
  BY <1>1, <1>4, <1>5, <1>8, <1>9 DEF row

\* Every step is one of these.
LEMMA Steps ==
  ASSUME TypeOK, Next
  PROVE  \/ Plain
         \/ \E r \in Requests :
              \/ CreateSession(r) \/ UpdatePassword(r) \/ RevokeAllUserSessions(r)
              \/ \E i \in DOMAIN session, n \in 0..MaxRefreshes : Refresh(r, i, n)
<1>1. CASE \E i \in DOMAIN session : SessionExpires(i)
  BY <1>1, TimeIsPlain
<1>2. CASE \E u \in Users : DeadlinePasses(u)
  BY <1>2, TimeIsPlain
<1>3. ASSUME NEW r \in Requests, Enter(r) \/ Use(r) \/ Reset(r) \/ Fail(r)
      PROVE  \/ Plain
             \/ CreateSession(r) \/ UpdatePassword(r) \/ RevokeAllUserSessions(r)
             \/ \E i \in DOMAIN session, n \in 0..MaxRefreshes : Refresh(r, i, n)
  <2>1. CASE Enter(r)
    BY <2>1, RegisterIsPlain, LoginIsPlain, MarkEmailVerifiedIsPlain, AnswerIsPlain DEF Enter
  <2>2. CASE Use(r)
    BY <2>2, OthersBeginPlainly, RefreshCheckIsPlain, RevokeIsPlain DEF Use
  <2>3. CASE Reset(r)
    BY <2>3, OthersBeginPlainly DEF Reset
  <2>4. CASE Fail(r)
    BY <2>4, FailIsPlain
  <2> QED
    BY <1>3, <2>1, <2>2, <2>3, <2>4
<1> QED
  BY <1>1, <1>2, <1>3 DEF Next

LEMMA NextTypeOK == TypeOK /\ [Next]_vars => TypeOK'
<1> SUFFICES ASSUME TypeOK, [Next]_vars PROVE TypeOK'
  OBVIOUS
<1>1. CASE Next
  BY <1>1, Steps, CreateSessionDoes, RefreshDoes, UpdatePasswordDoes, RevokeAllDoes DEF Plain, Refreshed
<1>2. CASE UNCHANGED vars
  BY <1>2 DEF vars, TypeOK, AccountsOK, SessionsOK, RequestsOK
<1> QED
  BY <1>1, <1>2

LEMMA InitTypeOK == Init => TypeOK
<1> SUFFICES ASSUME Init PROVE TypeOK
  OBVIOUS
<1>1. AccountsOK /\ SessionsOK
  BY EmptySeq DEF Init, AccountsOK, SessionsOK
<1>2. RequestsOK
  BY DEF Init, RequestsOK, Handler
<1> QED
  BY <1>1, <1>2 DEF TypeOK

THEOREM TypeCorrect == Spec => []TypeOK
  BY InitTypeOK, NextTypeOK, PTL DEF Spec

\* The sessions that a reset ends keep what else they are.
LEMMA RevokedKeepTokens ==
  ASSUME TypeOK, NEW r \in Requests, RevokeAllUserSessions(r)
  PROVE  /\ DOMAIN session' = DOMAIN session /\ client' = client
         /\ \A i \in DOMAIN session :
              /\ session'[i].token = session[i].token
              /\ session'[i].user = session[i].user
              /\ session'[i].proved = session[i].proved
              /\ session'[i].opened = session[i].opened
              /\ session'[i].revoked = (session[i].revoked \/ session[i].user = request[r].user)
<1>1. /\ DOMAIN session' = DOMAIN session /\ client' = client
      /\ \A i \in DOMAIN session :
           session'[i] = [session[i] EXCEPT !.revoked = @ \/ session[i].user = request[r].user]
  BY RevokeAllDoes
<1>2. \A i \in DOMAIN session : session[i] \in Session
  BY Tables
<1>3. ASSUME NEW i \in DOMAIN session, NEW row \in Session, NEW b \in BOOLEAN,
             session[i] = row, session'[i] = [row EXCEPT !.revoked = b]
      PROVE  /\ session'[i].token = row.token /\ session'[i].user = row.user
             /\ session'[i].proved = row.proved /\ session'[i].opened = row.opened
             /\ session'[i].revoked = b
  BY <1>3 DEF Session
<1>4. ASSUME NEW i \in DOMAIN session
      PROVE  /\ session'[i].token = session[i].token
             /\ session'[i].user = session[i].user
             /\ session'[i].proved = session[i].proved
             /\ session'[i].opened = session[i].opened
             /\ session'[i].revoked = (session[i].revoked \/ session[i].user = request[r].user)
  <2>1. PICK row \in Session : session[i] = row
    BY <1>2
  <2>2. PICK b \in BOOLEAN : b = (session[i].revoked \/ session[i].user = request[r].user)
    OBVIOUS
  <2>3. session'[i] = [row EXCEPT !.revoked = b]
    BY <1>1, <2>1, <2>2
  <2> QED
    BY <1>3, <2>1, <2>2, <2>3
<1> QED
  BY <1>1, <1>4

-------------------------------------------------------------------------------
(* Tokens. *)

\* What makes TokensSpentOnce inductive: the tokens that were spent are those
\* before the one that counts.
SpentInOrder == \A i \in DOMAIN session : client[i].spent = 0..(session[i].token - 1)

LEMMA NextSpent == TypeOK /\ SpentInOrder /\ [Next]_vars => SpentInOrder'
<1> SUFFICES ASSUME TypeOK, SpentInOrder, [Next]_vars PROVE SpentInOrder'
  OBVIOUS
<1>1. CASE Plain \/ UNCHANGED vars
  BY <1>1 DEF Plain, RowsKept, SpentInOrder, vars
<1>2. ASSUME NEW r \in Requests, CreateSession(r) PROVE SpentInOrder'
  <2> DEFINE row == NewSession(request[r].user, request[r].proved)
  <2>1. row.token = 0 /\ NewClient.spent = {}
    BY DEF NewSession, NewClient
  <2> HIDE DEF row
  <2>2. 0..(row.token - 1) = {}
    BY <2>1
  <2>3. /\ DOMAIN session' = DOMAIN session \cup {Len(session) + 1}
        /\ session'[Len(session) + 1] = row /\ client'[Len(session) + 1] = NewClient
        /\ \A i \in DOMAIN session : session'[i] = session[i] /\ client'[i] = client[i]
    BY <1>2, CreateSessionDoes DEF row
  <2> QED
    BY <2>1, <2>2, <2>3 DEF SpentInOrder
<1>3. ASSUME NEW r \in Requests, NEW i \in DOMAIN session, NEW n \in 0..MaxRefreshes,
             Refresh(r, i, n)
      PROVE  SpentInOrder'
  <2>a. Refreshed(r, i, n)
    BY <1>3, RefreshDoes
  <2>1. session[i] \in Session /\ client[i] \in Client /\ n \in Nat
    BY Tables, AccountsAssumption
  <2>2. /\ session'[i].token = n + 1 /\ client'[i].spent = client[i].spent \cup {n}
        /\ n = session[i].token
    <3>1. /\ session'[i] = [session[i] EXCEPT !.token = n + 1]
          /\ client'[i] = [client[i] EXCEPT !.spent = @ \cup {n}]
          /\ n = session[i].token
      BY <2>a DEF Refreshed
    <3> QED
      BY <2>1, <3>1 DEF Session, Client
  <2>3. client'[i].spent = 0..(session'[i].token - 1)
    BY <2>1, <2>2 DEF SpentInOrder
  <2>4. /\ DOMAIN session' = DOMAIN session
        /\ \A j \in DOMAIN session \ {i} : session'[j] = session[j] /\ client'[j] = client[j]
    BY <2>a DEF Refreshed
  <2> QED
    BY <2>3, <2>4 DEF SpentInOrder
<1>4. ASSUME NEW r \in Requests, UpdatePassword(r) PROVE SpentInOrder'
  <2>1. UNCHANGED <<session, client>>
    BY <1>4 DEF UpdatePassword
  <2> QED
    BY <2>1 DEF SpentInOrder
<1>5. ASSUME NEW r \in Requests, RevokeAllUserSessions(r) PROVE SpentInOrder'
  <2>1. /\ DOMAIN session' = DOMAIN session /\ client' = client
        /\ \A i \in DOMAIN session : session'[i].token = session[i].token
    BY <1>5, RevokedKeepTokens
  <2> QED
    BY <2>1 DEF SpentInOrder
<1> QED
  BY <1>1, <1>2, <1>3, <1>4, <1>5, Steps

\* TokensSpentOnce: however the refreshes of a session overlap with each other, a
\* logout or a reset, each that is accepted spends a token of its own.
THEOREM EachTokenIsSpentOnce == Spec => []TokensSpentOnce
<1>1. Init => SpentInOrder
  BY DEF Init, SpentInOrder
<1>2. TypeOK /\ SpentInOrder => TokensSpentOnce
  <2> SUFFICES ASSUME TypeOK, SpentInOrder, NEW i \in DOMAIN session
               PROVE  session[i].token = Cardinality(client[i].spent)
    BY DEF TokensSpentOnce
  <2> DEFINE n == session[i].token
  <2>1. n \in Nat
    BY Tables DEF Session
  <2>2. client[i].spent = 0..(n - 1)
    BY DEF SpentInOrder
  <2> HIDE DEF n
  <2>3. Cardinality(0..(n - 1)) = n
    BY <2>1, FS_Interval
  <2> QED
    BY <2>2, <2>3 DEF n
<1> QED
  BY <1>1, <1>2, NextSpent, TypeCorrect, PTL DEF Spec

-------------------------------------------------------------------------------
(* Answers. *)

\* The token that counts is the client's, is on its way, or was missed.
KeepsUp(i) ==
    \/ session[i].token \in client[i].tokens
    \/ client[i].missed
    \/ \E r \in Requests : /\ request[r].stage \in {"check", "answer"}
                           /\ request[r].session = i
                           /\ request[r].token = session[i].token

\* A session that a step leaves alone keeps its answer under way, unless the step
\* is that of the handler that answers.
LEMMA AnswersStay ==
  ASSUME NEW r \in Requests, request[r].stage \notin {"check", "answer"},
         \A q \in Requests \ {r} : request'[q] = request[q],
         NEW i, KeepsUp(i), session'[i].token = session[i].token,
         client'[i].tokens = client[i].tokens, client'[i].missed = client[i].missed
  PROVE  KeepsUp(i)'
  BY DEF KeepsUp

LEMMA NextKeepsUp == TypeOK /\ ClientsKeepUp /\ [Next]_vars => ClientsKeepUp'
<1> SUFFICES ASSUME TypeOK, ClientsKeepUp, [Next]_vars, NEW i \in DOMAIN session'
             PROVE  KeepsUp(i)'
  BY DEF ClientsKeepUp, KeepsUp
<1>a. \A j \in DOMAIN session : KeepsUp(j)
  BY DEF ClientsKeepUp, KeepsUp
<1>1. CASE Plain
  <2>1. i \in DOMAIN session /\ KeepsUp(i) /\ session'[i].token = session[i].token
    BY <1>1, <1>a DEF Plain, RowsKept
  <2>2. CASE session[i].token \in client[i].tokens \/ client[i].missed
    BY <1>1, <2>1, <2>2 DEF Plain, RowsKept, KeepsUp
  <2>3. ASSUME NEW r \in Requests, request[r].stage \in {"check", "answer"},
               request[r].session = i, request[r].token = session[i].token
        PROVE  KeepsUp(i)'
    <3>1. CASE request'[r] = request[r]
      BY <2>1, <2>3, <3>1 DEF KeepsUp
    <3>2. CASE Arrives(r)
      BY <2>1, <2>3, <3>2 DEF Arrives, KeepsUp
    <3> QED
      BY <1>1, <3>1, <3>2 DEF Plain
  <2> QED
    BY <2>1, <2>2, <2>3 DEF KeepsUp
<1>2. CASE UNCHANGED vars
  BY <1>2, <1>a DEF vars, KeepsUp
<1>3. ASSUME NEW r \in Requests, CreateSession(r) PROVE KeepsUp(i)'
  <2>1. request[r].stage \notin {"check", "answer"}
    BY <1>3, CreateSessionDoes DEF Entering
  <2>2. CASE i \in DOMAIN session
    <3>1. /\ session'[i] = session[i] /\ client'[i] = client[i]
          /\ \A q \in Requests \ {r} : request'[q] = request[q]
      BY <1>3, <2>2, CreateSessionDoes
    <3> QED
      BY <1>a, <2>1, <2>2, <3>1, AnswersStay
  <2>3. CASE i = Len(session) + 1
    <3>1. session'[i].token = 0 /\ request'[r] = [stage |-> "answer", session |-> i, token |-> 0]
      <4>1. /\ session'[Len(session) + 1] = NewSession(request[r].user, request[r].proved)
            /\ request'[r] = [stage |-> "answer", session |-> Len(session) + 1, token |-> 0]
        BY <1>3, CreateSessionDoes
      <4>2. NewSession(request[r].user, request[r].proved).token = 0
        BY DEF NewSession
      <4> QED
        BY <2>3, <4>1, <4>2
    <3> QED
      BY <3>1 DEF KeepsUp
  <2> QED
    BY <1>3, <2>2, <2>3, CreateSessionDoes
<1>4. ASSUME NEW r \in Requests, NEW j \in DOMAIN session, NEW n \in 0..MaxRefreshes,
             Refresh(r, j, n)
      PROVE  KeepsUp(i)'
  <2>a. Refreshed(r, j, n)
    BY <1>4, RefreshDoes
  <2>1. request[r].stage \notin {"check", "answer"} /\ i \in DOMAIN session
    <3>1. request[r] = Idle /\ DOMAIN session' = DOMAIN session
      BY <2>a DEF Refreshed
    <3> QED
      BY <3>1 DEF Idle
  <2>2. CASE i = j
    <3>1. session[i] \in Session
      BY <2>1, Tables
    <3>2. session'[i].token = n + 1 /\ request'[r] = [stage |-> "check", session |-> i, token |-> n + 1]
      <4>1. /\ session'[j] = [session[j] EXCEPT !.token = n + 1]
            /\ request'[r] = [stage |-> "check", session |-> j, token |-> n + 1]
        BY <2>a DEF Refreshed
      <4> QED
        BY <2>2, <3>1, <4>1 DEF Session
    <3> QED
      BY <3>2 DEF KeepsUp
  <2>3. CASE i # j
    <3>1. /\ session'[i] = session[i] /\ client'[i] = client[i]
          /\ \A q \in Requests \ {r} : request'[q] = request[q]
      BY <2>1, <2>3, <2>a DEF Refreshed
    <3> QED
      BY <1>a, <2>1, <3>1, AnswersStay
  <2> QED
    BY <2>2, <2>3
<1>5. ASSUME NEW r \in Requests, UpdatePassword(r) PROVE KeepsUp(i)'
  <2>1. request[r].stage \notin {"check", "answer"}
    BY <1>5 DEF UpdatePassword
  <2>2. UNCHANGED <<session, client>> /\ \A q \in Requests \ {r} : request'[q] = request[q]
    BY <1>5, UpdatePasswordDoes
  <2> QED
    BY <1>a, <2>1, <2>2, AnswersStay
<1>6. ASSUME NEW r \in Requests, RevokeAllUserSessions(r) PROVE KeepsUp(i)'
  <2>1. request[r].stage \notin {"check", "answer"} /\ i \in DOMAIN session
    <3>1. request[r].stage = "revokeAll"
      BY <1>6 DEF RevokeAllUserSessions
    <3> QED
      BY <1>6, <3>1, RevokedKeepTokens
  <2>2. session'[i].token = session[i].token /\ client' = client
    BY <1>6, <2>1, RevokedKeepTokens
  <2>3. \A q \in Requests \ {r} : request'[q] = request[q]
    BY <1>6, RevokeAllDoes
  <2> QED
    BY <1>a, <2>1, <2>2, <2>3, AnswersStay
<1> QED
  BY <1>1, <1>2, <1>3, <1>4, <1>5, <1>6, Steps

\* ClientsKeepUp: a client that received its answers has the token that counts.
THEOREM ClientsCanGoOn == Spec => []ClientsKeepUp
<1>1. Init => ClientsKeepUp
  BY DEF Init, ClientsKeepUp
<1> QED
  BY <1>1, NextKeepsUp, TypeCorrect, PTL DEF Spec

-------------------------------------------------------------------------------
(* Resets. *)

\* A reset of u is under way, or stopped halfway.
Unfinished(u) == Resetting(u) \/ u \in halted

\* It remains so until a reset of u is finished.
LEMMA PlainLeavesUnfinished ==
  ASSUME TypeOK, Plain, NEW u, Unfinished(u)
  PROVE  Unfinished(u)'
<1>1. CASE u \in halted
  BY <1>1 DEF Plain, Unfinished
<1>2. ASSUME NEW r \in Requests, request[r] = [stage |-> "revokeAll", user |-> u]
      PROVE  Unfinished(u)'
  <2>1. CASE request'[r] = request[r]
    BY <1>2, <2>1 DEF Unfinished, Resetting
  <2>2. CASE GivesUp(r)
    BY <1>2, <2>2 DEF Unfinished, GivesUp
  <2> QED
    BY <2>1, <2>2 DEF Plain
<1> QED
  BY <1>1, <1>2 DEF Unfinished, Resetting

LEMMA OthersLeaveUnfinished ==
  ASSUME NEW r \in Requests, NEW u, Unfinished(u),
         \A q \in Requests \ {r} : request'[q] = request[q],
         request[r] # [stage |-> "revokeAll", user |-> u],
         u \in halted => u \in halted'
  PROVE  Unfinished(u)'
  BY DEF Unfinished, Resetting

\* A session that a changed password has left behind is revoked, or its reset is
\* unfinished.
EndsWithReset(i) ==
    session[i].opened < account[session[i].user].password =>
      session[i].revoked \/ Unfinished(session[i].user)

AllEndWithReset == \A i \in DOMAIN session : EndsWithReset(i)

LEMMA NextResets == TypeOK /\ AllEndWithReset /\ [Next]_vars => AllEndWithReset'
<1> SUFFICES ASSUME TypeOK, \A i \in DOMAIN session : EndsWithReset(i), [Next]_vars,
                    NEW i \in DOMAIN session'
             PROVE  EndsWithReset(i)'
  BY DEF AllEndWithReset
<1>a. ASSUME NEW u, i \in DOMAIN session, session[i].user = u, session'[i].user = u,
             session'[i].opened = session[i].opened,
             session[i].revoked => session'[i].revoked,
             account'[u].password = account[u].password,
             Unfinished(u) => Unfinished(u)'
      PROVE  EndsWithReset(i)'
  <2>1. /\ EndsWithReset(i) /\ session[i].user = u /\ session'[i].user = u
        /\ session'[i].opened = session[i].opened
        /\ session[i].revoked => session'[i].revoked
        /\ account'[u].password = account[u].password
    BY <1>a
  <2>2. session'[i].opened < account'[u].password => session'[i].revoked \/ Unfinished(u)'
    BY <1>a, <2>1 DEF EndsWithReset
  <2> QED
    BY <2>1, <2>2 DEF EndsWithReset, Unfinished, Resetting
<1>b. i \in DOMAIN session => session[i].user \in DOMAIN account
  BY DEF TypeOK, SessionsOK
<1>1. CASE Plain
  <2> DEFINE u == session[i].user
  <2>1. i \in DOMAIN session /\ u \in DOMAIN account
    BY <1>1, <1>b DEF Plain, RowsKept
  <2>2. PICK v : v = u
    OBVIOUS
  <2>3. Unfinished(v) => Unfinished(v)'
    BY <1>1, PlainLeavesUnfinished
  <2>4. /\ session[i].user = v /\ session'[i].user = v
        /\ session'[i].opened = session[i].opened
        /\ session[i].revoked => session'[i].revoked
        /\ account'[v].password = account[v].password
    BY <1>1, <2>1, <2>2 DEF Plain, RowsKept, PasswordsKept
  <2> QED
    BY <1>a, <2>1, <2>3, <2>4
<1>2. CASE UNCHANGED vars
  BY <1>2 DEF vars, EndsWithReset, Unfinished, Resetting
<1>3. ASSUME NEW r \in Requests, CreateSession(r) PROVE EndsWithReset(i)'
  <2>1. request[r].stage = "enter" /\ UNCHANGED <<account, halted>>
    BY <1>3 DEF CreateSession
  <2>2. /\ DOMAIN session' = DOMAIN session \cup {Len(session) + 1}
        /\ session'[Len(session) + 1] = NewSession(request[r].user, request[r].proved)
        /\ \A j \in DOMAIN session : session'[j] = session[j]
        /\ \A q \in Requests \ {r} : request'[q] = request[q]
        /\ request[r] \in Entering(DOMAIN account)
    BY <1>3, CreateSessionDoes
  <2>3. CASE i \in DOMAIN session
    <3>1. PICK v : v = session[i].user
      OBVIOUS
    <3>2. Unfinished(v) => Unfinished(v)'
      <4>1. request[r] # [stage |-> "revokeAll", user |-> v]
        BY <2>1
      <4> QED
        BY <2>1, <2>2, <4>1, OthersLeaveUnfinished
    <3> QED
      BY <1>a, <2>1, <2>2, <2>3, <3>1, <3>2
  <2>4. CASE i = Len(session) + 1
    <3>1. session'[i].opened = account[request[r].user].password /\ session'[i].user = request[r].user
      BY <2>2, <2>4 DEF NewSession
    <3>2. account[request[r].user].password \in Nat
      BY <2>2 DEF Entering, TypeOK, AccountsOK, Account
    <3>3. ~(session'[i].opened < account'[session'[i].user].password)
      BY <2>1, <3>1, <3>2
    <3> QED
      BY <3>3 DEF EndsWithReset
  <2> QED
    BY <2>2, <2>3, <2>4
<1>4. ASSUME NEW r \in Requests, NEW j \in DOMAIN session, NEW n \in 0..MaxRefreshes,
             Refresh(r, j, n)
      PROVE  EndsWithReset(i)'
  <2>a. Refreshed(r, j, n)
    BY <1>4, RefreshDoes
  <2>1. /\ i \in DOMAIN session /\ UNCHANGED <<account, halted>>
        /\ request[r] # [stage |-> "revokeAll", user |-> session[i].user]
        /\ \A q \in Requests \ {r} : request'[q] = request[q]
    BY <2>a DEF Refreshed, Idle
  <2>2. session[j] \in Session
    BY Tables
  <2>3. /\ session'[i].user = session[i].user /\ session'[i].opened = session[i].opened
        /\ session'[i].revoked = session[i].revoked
    <3>1. CASE i = j
      <4>1. session'[j] = [session[j] EXCEPT !.token = n + 1]
        BY <2>a DEF Refreshed
      <4> QED
        BY <2>2, <3>1, <4>1 DEF Session
    <3>2. CASE i # j
      BY <2>a, <2>1, <3>2 DEF Refreshed
    <3> QED
      BY <3>1, <3>2
  <2>4. PICK v : v = session[i].user
    OBVIOUS
  <2>5. Unfinished(v) => Unfinished(v)'
    BY <2>1, <2>4, OthersLeaveUnfinished
  <2> QED
    BY <1>a, <2>1, <2>3, <2>4, <2>5
<1>5. ASSUME NEW r \in Requests, UpdatePassword(r) PROVE EndsWithReset(i)'
  <2>1. request[r].stage = "update" /\ UNCHANGED <<session, halted>>
    BY <1>5 DEF UpdatePassword
  <2>2. /\ \A v \in DOMAIN account : v # request[r].user => account'[v] = account[v]
        /\ request'[r] = [stage |-> "revokeAll", user |-> request[r].user]
        /\ \A q \in Requests \ {r} : request'[q] = request[q]
    BY <1>5, UpdatePasswordDoes
  <2>3. PICK v : v = session[i].user
    OBVIOUS
  <2>4. CASE v = request[r].user
    <3>1. Unfinished(v)'
      BY <2>2, <2>4 DEF Unfinished, Resetting
    <3>2. session'[i].user = v
      BY <2>1, <2>3
    <3> QED
      BY <3>1, <3>2 DEF EndsWithReset, Unfinished, Resetting
  <2>5. CASE v # request[r].user
    <3>1. Unfinished(v) => Unfinished(v)'
      <4>1. request[r] # [stage |-> "revokeAll", user |-> v]
        BY <2>1
      <4> QED
        BY <2>1, <2>2, <4>1, OthersLeaveUnfinished
    <3> QED
      BY <1>a, <1>b, <2>1, <2>2, <2>3, <2>5, <3>1
  <2> QED
    BY <2>4, <2>5
<1>6. ASSUME NEW r \in Requests, RevokeAllUserSessions(r) PROVE EndsWithReset(i)'
  <2>1. /\ account' = account /\ halted' = halted \ {request[r].user}
        /\ request[r] = [stage |-> "revokeAll", user |-> request[r].user]
        /\ \A q \in Requests \ {r} : request'[q] = request[q]
    BY <1>6, RevokeAllDoes
  <2>2. /\ i \in DOMAIN session /\ session'[i].user = session[i].user
        /\ session'[i].opened = session[i].opened
        /\ session'[i].revoked = (session[i].revoked \/ session[i].user = request[r].user)
    BY <1>6, RevokedKeepTokens
  <2>3. PICK v : v = session[i].user
    OBVIOUS
  <2>4. CASE v = request[r].user
    BY <2>2, <2>3, <2>4 DEF EndsWithReset
  <2>5. CASE v # request[r].user
    <3>1. request[r] # [stage |-> "revokeAll", user |-> v]
      BY <2>1, <2>5
    <3>2. Unfinished(v) => Unfinished(v)'
      BY <2>1, <2>5, <3>1, OthersLeaveUnfinished
    <3> QED
      BY <1>a, <2>1, <2>2, <2>3, <3>2
  <2> QED
    BY <2>4, <2>5
<1> QED
  BY <1>1, <1>2, <1>3, <1>4, <1>5, <1>6, Steps

\* ResetsEndSessions: no session outlives the change of the password it was opened
\* under, unless the reset stopped halfway.
THEOREM ResetsEndOldSessions == Spec => []ResetsEndSessions
<1>1. Init => AllEndWithReset
  BY DEF Init, AllEndWithReset
<1>2. AllEndWithReset => ResetsEndSessions
  BY DEF ResetsEndSessions, AllEndWithReset, EndsWithReset, Unfinished
<1> QED
  BY <1>1, <1>2, NextResets, TypeCorrect, PTL DEF Spec

-------------------------------------------------------------------------------
(* Old passwords. *)

\* The handlers that compared a password that u has changed since and have not yet
\* opened their session.
Coming(u, password) ==
    {r \in Requests :
       /\ request[r].stage \in {"verify", "enter"}
       /\ request[r].user = u
       /\ request[r].proved = password
       /\ password < account[u].password}

\* What makes OldPasswordsOpenLittle inductive: handlers that will open a stray
\* session count as if they had.
FewStrays(u) ==
    Unfinished(u) \/
      \A password \in Nat :
        Cardinality(Stray(u, password)) + Cardinality(Coming(u, password)) < Cardinality(Requests)

AllFewStrays == \A u \in DOMAIN account : FewStrays(u)

\* Strays and handlers are finitely many.
LEMMA StraysAreFinite ==
  ASSUME TypeOK, NEW u, NEW p
  PROVE  /\ IsFiniteSet(Stray(u, p)) /\ IsFiniteSet(Coming(u, p))
         /\ Cardinality(Stray(u, p)) \in Nat /\ Cardinality(Coming(u, p)) \in Nat
         /\ Cardinality(Coming(u, p)) <= Cardinality(Requests)
<1>1. Stray(u, p) \subseteq 1..Len(session) /\ IsFiniteSet(1..Len(session))
  <2>1. Len(session) \in Nat /\ DOMAIN session = 1..Len(session)
    BY Tables
  <2>2. IsFiniteSet(1..Len(session))
    BY <2>1, FS_Interval
  <2> QED
    BY <2>1, <2>2 DEF Stray
<1>2. Coming(u, p) \subseteq Requests /\ IsFiniteSet(Requests)
  BY AccountsAssumption DEF Coming
<1>3. IsFiniteSet(Stray(u, p)) /\ Cardinality(Stray(u, p)) \in Nat
  BY <1>1, FS_Subset, FS_CardinalityType
<1>4. /\ IsFiniteSet(Coming(u, p)) /\ Cardinality(Coming(u, p)) \in Nat
      /\ Cardinality(Coming(u, p)) <= Cardinality(Requests)
  BY <1>2, FS_Subset, FS_CardinalityType
<1> QED
  BY <1>3, <1>4

LEMMA RequestsCount == Cardinality(Requests) \in Nat /\ 0 < Cardinality(Requests)
<1>1. Cardinality(Requests) \in Nat /\ Cardinality(Requests) # 0
  BY AccountsAssumption, FS_CardinalityType, FS_EmptySet
<1> QED
  BY <1>1

\* Fewer of both leave few.
LEMMA FewerStrays ==
  ASSUME TypeOK, TypeOK', NEW u, FewStrays(u), Unfinished(u) => Unfinished(u)',
         \A p \in Nat : Stray(u, p)' \subseteq Stray(u, p) /\ Coming(u, p)' \subseteq Coming(u, p)
  PROVE  FewStrays(u)'
<1>1. CASE Unfinished(u)
  BY <1>1 DEF FewStrays
<1>2. ASSUME ~Unfinished(u), NEW p \in Nat
      PROVE  Cardinality(Stray(u, p)') + Cardinality(Coming(u, p)') < Cardinality(Requests)
  <2>1. Cardinality(Stray(u, p)) + Cardinality(Coming(u, p)) < Cardinality(Requests)
    BY <1>2 DEF FewStrays
  <2>2. /\ IsFiniteSet(Stray(u, p)) /\ IsFiniteSet(Coming(u, p))
        /\ Cardinality(Stray(u, p)) \in Nat /\ Cardinality(Coming(u, p)) \in Nat
    BY StraysAreFinite
  <2>3. /\ Cardinality(Stray(u, p)') \in Nat
        /\ Cardinality(Stray(u, p)') <= Cardinality(Stray(u, p))
    BY <1>2, <2>2, FS_Subset, FS_CardinalityType
  <2>4. /\ Cardinality(Coming(u, p)') \in Nat
        /\ Cardinality(Coming(u, p)') <= Cardinality(Coming(u, p))
    BY <1>2, <2>2, FS_Subset, FS_CardinalityType
  <2> QED
    BY <2>1, <2>2, <2>3, <2>4, RequestsCount
<1> QED
  BY <1>1, <1>2 DEF FewStrays

\* Without strays, all handlers but one may be coming.
LEMMA NoStrays ==
  ASSUME NEW r \in Requests, NEW S, S = {}, NEW C, C \subseteq Requests \ {r}
  PROVE  Cardinality(S) + Cardinality(C) < Cardinality(Requests)
<1>1. Cardinality(S) = 0
  BY FS_EmptySet
<1>2. /\ IsFiniteSet(Requests \ {r})
      /\ Cardinality(Requests \ {r}) = Cardinality(Requests) - 1
  BY AccountsAssumption, FS_RemoveElement
<1>3. Cardinality(C) <= Cardinality(Requests \ {r}) /\ Cardinality(C) \in Nat
  BY <1>2, FS_Subset, FS_CardinalityType
<1> QED
  BY <1>1, <1>2, <1>3, RequestsCount

\* What a handler or a session is to count for u under a password that u has changed.
Comes(q, u) ==
    /\ request[q].stage \in {"verify", "enter"}
    /\ request[q].user = u
    /\ request[q].proved < account[u].password

Strays(i, u) ==
    /\ session[i].user = u
    /\ session[i].proved < account[u].password
    /\ ~session[i].revoked

\* A step that neither changes a password nor adds to these keeps them few.
LEMMA NothingNew ==
  ASSUME TypeOK, TypeOK', NEW u, FewStrays(u), Unfinished(u) => Unfinished(u)',
         account'[u].password = account[u].password,
         \A i \in DOMAIN session' :
           Strays(i, u)' => /\ i \in DOMAIN session /\ Strays(i, u)
                           /\ session'[i].proved = session[i].proved,
         \A q \in Requests :
           Comes(q, u)' => Comes(q, u) /\ request'[q].proved = request[q].proved
  PROVE  FewStrays(u)'
<1>1. ASSUME NEW p \in Nat PROVE Stray(u, p)' \subseteq Stray(u, p)
  <2> SUFFICES ASSUME NEW i \in Stray(u, p)' PROVE i \in Stray(u, p)
    OBVIOUS
  <2>1. /\ i \in DOMAIN session' /\ Strays(i, u)' /\ session'[i].proved = p
        /\ p < account[u].password
    BY DEF Stray, Strays
  <2> QED
    BY <2>1 DEF Stray, Strays
<1>2. ASSUME NEW p \in Nat PROVE Coming(u, p)' \subseteq Coming(u, p)
  <2> SUFFICES ASSUME NEW q \in Coming(u, p)' PROVE q \in Coming(u, p)
    OBVIOUS
  <2>1. /\ q \in Requests /\ Comes(q, u)' /\ request'[q].proved = p
        /\ p < account[u].password
    BY DEF Coming, Comes
  <2> QED
    BY <2>1 DEF Coming, Comes
<1> QED
  BY <1>1, <1>2, FewerStrays

LEMMA PlainFewStrays ==
  ASSUME TypeOK, Plain, AllFewStrays, NEW u \in DOMAIN account'
  PROVE  FewStrays(u)'
<1>1. TypeOK' /\ u \in Users
  BY DEF Plain, TypeOK, AccountsOK
<1>2. CASE u \in DOMAIN account
  <2>1. FewStrays(u) /\ (Unfinished(u) => Unfinished(u)')
    BY <1>2, PlainLeavesUnfinished DEF AllFewStrays
  <2>2. account'[u].password = account[u].password /\ account[u].password \in Nat
    BY <1>2 DEF Plain, PasswordsKept, TypeOK, AccountsOK, Account
  <2>3. \A i \in DOMAIN session' :
          Strays(i, u)' => /\ i \in DOMAIN session /\ Strays(i, u)
                          /\ session'[i].proved = session[i].proved
    BY <2>2 DEF Plain, RowsKept, Strays
  <2>4. ASSUME NEW q \in Requests, Comes(q, u)'
        PROVE  Comes(q, u) /\ request'[q].proved = request[q].proved
    <3>1. CASE request'[q] = request[q]
      BY <2>2, <2>4, <3>1 DEF Comes
    <3>2. CASE Proves(q)
      BY <2>2, <2>4, <3>2 DEF Comes, Proves
    <3> QED
      BY <3>1, <3>2 DEF Plain
  <2> QED
    BY <1>1, <2>1, <2>2, <2>3, <2>4, NothingNew
<1>3. CASE u \notin DOMAIN account
  <2>1. account'[u].password = 0
    BY <1>3 DEF Plain, PasswordsKept
  <2>2. ASSUME NEW p \in Nat PROVE Stray(u, p)' = {} /\ Coming(u, p)' = {}
    BY <2>1 DEF Stray, Coming
  <2>3. PICK r \in Requests : TRUE
    BY AccountsAssumption
  <2>4. ASSUME NEW p \in Nat
        PROVE  Cardinality(Stray(u, p)') + Cardinality(Coming(u, p)') < Cardinality(Requests)
    BY <2>2, <2>3, NoStrays
  <2> QED
    BY <2>4 DEF FewStrays
<1> QED
  BY <1>2, <1>3

\* Who comes and opens a stray session counts as before.
LEMMA OneComes ==
  ASSUME NEW S, NEW C, IsFiniteSet(S), IsFiniteSet(C), NEW n, NEW r \in C,
         NEW T, T \subseteq S \cup {n}, NEW D, D \subseteq C \ {r}
  PROVE  /\ Cardinality(T) \in Nat /\ Cardinality(D) \in Nat
         /\ Cardinality(T) + Cardinality(D) <= Cardinality(S) + Cardinality(C)
<1>1. /\ IsFiniteSet(S \cup {n}) /\ Cardinality(S) \in Nat
      /\ Cardinality(S \cup {n}) <= Cardinality(S) + 1
  <2>1. /\ Cardinality(S) \in Nat /\ IsFiniteSet(S \cup {n})
        /\ \/ Cardinality(S \cup {n}) = Cardinality(S)
           \/ Cardinality(S \cup {n}) = Cardinality(S) + 1
    BY FS_AddElement, FS_CardinalityType
  <2> QED
    BY <2>1
<1>2. /\ IsFiniteSet(C \ {r}) /\ Cardinality(C) \in Nat
      /\ Cardinality(C \ {r}) = Cardinality(C) - 1
  BY FS_RemoveElement, FS_CardinalityType
<1>3. /\ Cardinality(T) \in Nat /\ Cardinality(S \cup {n}) \in Nat
      /\ Cardinality(T) <= Cardinality(S \cup {n})
  BY <1>1, FS_Subset, FS_CardinalityType
<1>4. /\ Cardinality(D) \in Nat /\ Cardinality(C \ {r}) \in Nat
      /\ Cardinality(D) <= Cardinality(C \ {r})
  BY <1>2, FS_Subset, FS_CardinalityType
<1> QED
  BY <1>1, <1>2, <1>3, <1>4

LEMMA CreateSessionFewStrays ==
  ASSUME TypeOK, AllFewStrays, NEW r \in Requests, CreateSession(r), NEW u \in DOMAIN account'
  PROVE  FewStrays(u)'
<1>1. /\ request[r].stage = "enter" /\ UNCHANGED <<account, halted>>
  BY DEF CreateSession
<1>2. PICK n : n = Len(session) + 1
  OBVIOUS
<1>3. /\ TypeOK' /\ request[r] \in Entering(DOMAIN account)
      /\ DOMAIN session' = DOMAIN session \cup {n} /\ n \notin DOMAIN session
      /\ session'[n] = NewSession(request[r].user, request[r].proved)
      /\ \A i \in DOMAIN session : session'[i] = session[i]
      /\ request'[r] = [stage |-> "answer", session |-> n, token |-> 0]
      /\ \A q \in Requests \ {r} : request'[q] = request[q]
  BY <1>2, CreateSessionDoes
<1>4. /\ session'[n].user = request[r].user /\ session'[n].proved = request[r].proved
      /\ u \in DOMAIN account /\ FewStrays(u)
  BY <1>1, <1>3 DEF NewSession, AllFewStrays
<1>5. Unfinished(u) => Unfinished(u)'
  <2>1. request[r] # [stage |-> "revokeAll", user |-> u]
    BY <1>1
  <2> QED
    BY <1>1, <1>3, <2>1, OthersLeaveUnfinished
<1>6. CASE Unfinished(u)
  BY <1>5, <1>6 DEF FewStrays
<1>7. ASSUME ~Unfinished(u), NEW p \in Nat
      PROVE  Cardinality(Stray(u, p)') + Cardinality(Coming(u, p)') < Cardinality(Requests)
  <2>1. Cardinality(Stray(u, p)) + Cardinality(Coming(u, p)) < Cardinality(Requests)
    BY <1>4, <1>7 DEF FewStrays
  <2>2. /\ IsFiniteSet(Stray(u, p)) /\ IsFiniteSet(Coming(u, p))
        /\ Cardinality(Stray(u, p)) \in Nat /\ Cardinality(Coming(u, p)) \in Nat
    BY StraysAreFinite
  <2>3. Coming(u, p)' \subseteq Coming(u, p) \ {r}
    BY <1>1, <1>3 DEF Coming
  <2>4. Stray(u, p)' \subseteq Stray(u, p) \cup {n}
    BY <1>1, <1>3 DEF Stray
  <2>5. CASE r \in Coming(u, p)
    <3>1. /\ Cardinality(Stray(u, p)') \in Nat /\ Cardinality(Coming(u, p)') \in Nat
          /\ Cardinality(Stray(u, p)') + Cardinality(Coming(u, p)')
               <= Cardinality(Stray(u, p)) + Cardinality(Coming(u, p))
      BY <2>2, <2>3, <2>4, <2>5, OneComes
    <3> QED
      BY <2>1, <2>2, <3>1, RequestsCount
  <2>6. CASE r \notin Coming(u, p)
    <3>1. n \notin Stray(u, p)'
      BY <1>1, <1>4, <2>6 DEF Stray, Coming
    <3>2. /\ Cardinality(Stray(u, p)') \in Nat
          /\ Cardinality(Stray(u, p)') <= Cardinality(Stray(u, p))
      BY <2>2, <2>4, <3>1, FS_Subset, FS_CardinalityType
    <3>3. /\ Cardinality(Coming(u, p)') \in Nat
          /\ Cardinality(Coming(u, p)') <= Cardinality(Coming(u, p))
      BY <2>2, <2>3, FS_Subset, FS_CardinalityType
    <3> QED
      BY <2>1, <2>2, <3>2, <3>3, RequestsCount
  <2> QED
    BY <2>5, <2>6
<1> QED
  BY <1>6, <1>7 DEF FewStrays

LEMMA RefreshFewStrays ==
  ASSUME TypeOK, AllFewStrays, NEW r \in Requests, NEW i \in DOMAIN session,
         NEW n \in 0..MaxRefreshes, Refresh(r, i, n), NEW u \in DOMAIN account'
  PROVE  FewStrays(u)'
<1>1. Refreshed(r, i, n)
  BY RefreshDoes
<1>2. /\ TypeOK' /\ UNCHANGED <<account, halted>> /\ DOMAIN session' = DOMAIN session
      /\ request[r] = Idle
      /\ request'[r] = [stage |-> "check", session |-> i, token |-> n + 1]
      /\ \A q \in Requests \ {r} : request'[q] = request[q]
  BY <1>1 DEF Refreshed
<1>3. u \in DOMAIN account /\ FewStrays(u)
  BY <1>2 DEF AllFewStrays
<1>4. Unfinished(u) => Unfinished(u)'
  <2>1. request[r] # [stage |-> "revokeAll", user |-> u]
    BY <1>2 DEF Idle
  <2> QED
    BY <1>2, <2>1, OthersLeaveUnfinished
<1>5. ASSUME NEW j \in DOMAIN session'
      PROVE  /\ j \in DOMAIN session /\ session'[j].user = session[j].user
             /\ session'[j].proved = session[j].proved
             /\ session'[j].revoked = session[j].revoked
  <2>1. j \in DOMAIN session
    BY <1>2
  <2>2. CASE j = i
    <3>1. session[i] \in Session
      BY Tables
    <3>2. session'[i] = [session[i] EXCEPT !.token = n + 1]
      BY <1>1 DEF Refreshed
    <3> QED
      BY <2>1, <2>2, <3>1, <3>2 DEF Session
  <2>3. CASE j # i
    BY <1>1, <2>1, <2>3 DEF Refreshed
  <2> QED
    BY <2>2, <2>3
<1>6. \A j \in DOMAIN session' :
        Strays(j, u)' => j \in DOMAIN session /\ Strays(j, u)
                         /\ session'[j].proved = session[j].proved
  BY <1>2, <1>5 DEF Strays
<1>7. \A q \in Requests :
        Comes(q, u)' => Comes(q, u) /\ request'[q].proved = request[q].proved
  BY <1>2 DEF Comes
<1> QED
  BY <1>2, <1>3, <1>4, <1>6, <1>7, NothingNew

\* The reset that changes the password is under way.
LEMMA UpdatePasswordFewStrays ==
  ASSUME TypeOK, AllFewStrays, NEW r \in Requests, UpdatePassword(r), NEW u \in DOMAIN account'
  PROVE  FewStrays(u)'
<1>1. request[r].stage = "update" /\ UNCHANGED <<session, halted>>
  BY DEF UpdatePassword
<1>2. /\ TypeOK' /\ DOMAIN account' = DOMAIN account
      /\ \A v \in DOMAIN account : v # request[r].user => account'[v] = account[v]
      /\ request'[r] = [stage |-> "revokeAll", user |-> request[r].user]
      /\ \A q \in Requests \ {r} : request'[q] = request[q]
  BY UpdatePasswordDoes
<1>3. CASE u = request[r].user
  <2>1. Unfinished(u)'
    BY <1>2, <1>3 DEF Unfinished, Resetting
  <2> QED
    BY <2>1 DEF FewStrays
<1>4. CASE u # request[r].user
  <2>1. u \in DOMAIN account /\ FewStrays(u) /\ account'[u] = account[u]
    BY <1>2, <1>4 DEF AllFewStrays
  <2>2. Unfinished(u) => Unfinished(u)'
    <3>1. request[r] # [stage |-> "revokeAll", user |-> u]
      BY <1>1
    <3> QED
      BY <1>1, <1>2, <3>1, OthersLeaveUnfinished
  <2>3. \A i \in DOMAIN session' :
          Strays(i, u)' => i \in DOMAIN session /\ Strays(i, u)
                           /\ session'[i].proved = session[i].proved
    BY <1>1, <2>1 DEF Strays
  <2>4. \A q \in Requests :
          Comes(q, u)' => Comes(q, u) /\ request'[q].proved = request[q].proved
    BY <1>2, <2>1 DEF Comes
  <2> QED
    BY <1>2, <2>1, <2>2, <2>3, <2>4, NothingNew
<1> QED
  BY <1>3, <1>4

\* The reset that ends leaves no stray, and its handler is not coming.
LEMMA RevokeAllFewStrays ==
  ASSUME TypeOK, AllFewStrays, NEW r \in Requests, RevokeAllUserSessions(r),
         NEW u \in DOMAIN account'
  PROVE  FewStrays(u)'
<1>1. /\ TypeOK' /\ account' = account /\ halted' = halted \ {request[r].user}
      /\ request[r] = [stage |-> "revokeAll", user |-> request[r].user]
      /\ request'[r] = Idle
      /\ \A q \in Requests \ {r} : request'[q] = request[q]
  BY RevokeAllDoes
<1>2. ASSUME NEW i \in DOMAIN session'
      PROVE  /\ i \in DOMAIN session /\ session'[i].user = session[i].user
             /\ session'[i].proved = session[i].proved
             /\ session'[i].revoked = (session[i].revoked \/ session[i].user = request[r].user)
  BY RevokedKeepTokens
<1>3. CASE u = request[r].user
  <2>1. ASSUME NEW p \in Nat
        PROVE  Cardinality(Stray(u, p)') + Cardinality(Coming(u, p)') < Cardinality(Requests)
    <3>1. Stray(u, p)' = {}
      BY <1>2, <1>3 DEF Stray
    <3>2. Coming(u, p)' \subseteq Requests \ {r}
      BY <1>1 DEF Coming, Idle
    <3> QED
      BY <3>1, <3>2, NoStrays
  <2> QED
    BY <2>1 DEF FewStrays
<1>4. CASE u # request[r].user
  <2>1. u \in DOMAIN account /\ FewStrays(u)
    BY <1>1 DEF AllFewStrays
  <2>2. Unfinished(u) => Unfinished(u)'
    <3>1. request[r] # [stage |-> "revokeAll", user |-> u]
      BY <1>1, <1>4
    <3> QED
      BY <1>1, <1>4, <3>1, OthersLeaveUnfinished
  <2>3. \A i \in DOMAIN session' :
          Strays(i, u)' => i \in DOMAIN session /\ Strays(i, u)
                           /\ session'[i].proved = session[i].proved
    BY <1>1, <1>2 DEF Strays
  <2>4. \A q \in Requests :
          Comes(q, u)' => Comes(q, u) /\ request'[q].proved = request[q].proved
    BY <1>1 DEF Comes, Idle
  <2> QED
    BY <1>1, <2>1, <2>2, <2>3, <2>4, NothingNew
<1> QED
  BY <1>3, <1>4

LEMMA NextFewStrays == TypeOK /\ AllFewStrays /\ [Next]_vars => AllFewStrays'
<1> SUFFICES ASSUME TypeOK, AllFewStrays, [Next]_vars PROVE AllFewStrays'
  OBVIOUS
<1>1. CASE Next
  <2> SUFFICES ASSUME NEW u \in DOMAIN account' PROVE FewStrays(u)'
    BY DEF AllFewStrays
  <2> QED
    BY <1>1, Steps, PlainFewStrays, CreateSessionFewStrays, RefreshFewStrays,
       UpdatePasswordFewStrays, RevokeAllFewStrays
<1>2. CASE UNCHANGED vars
  BY <1>2 DEF vars, AllFewStrays, FewStrays, Unfinished, Resetting, Stray, Coming
<1> QED
  BY <1>1, <1>2

\* OldPasswordsOpenLittle: once a reset is done, the sessions that the old password
\* opened and that are not revoked are fewer than the handlers that can run at once.
THEOREM OldPasswordsOpenFewSessions == Spec => []OldPasswordsOpenLittle
<1>1. Init => AllFewStrays
  BY DEF Init, AllFewStrays
<1>2. TypeOK /\ AllFewStrays => OldPasswordsOpenLittle
  <2> SUFFICES ASSUME TypeOK, AllFewStrays, NEW u \in DOMAIN account, ~Unfinished(u),
                      NEW p \in 0..MaxPasswords
               PROVE  Cardinality(Stray(u, p)) < Cardinality(Requests)
    BY DEF OldPasswordsOpenLittle, Unfinished
  <2>1. Cardinality(Stray(u, p)) + Cardinality(Coming(u, p)) < Cardinality(Requests)
    BY AccountsAssumption DEF AllFewStrays, FewStrays
  <2>2. Cardinality(Stray(u, p)) \in Nat /\ Cardinality(Coming(u, p)) \in Nat
    BY StraysAreFinite
  <2> QED
    BY <2>1, <2>2, RequestsCount
<1> QED
  BY <1>1, <1>2, NextFewStrays, TypeCorrect, PTL DEF Spec

===============================================================================
