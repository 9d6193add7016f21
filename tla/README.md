# A TLA+ model of the MLAKP backend

The backend (Go, PostgreSQL) lets the members of a group share expenses. An
expense causes debts, debts are accepted and paid, and each payment is confirmed
by the one who receives it. This directory holds TLA+ modules that model the
parts of the program where order, overlap and arithmetic matter, TLC
configurations that check them on small instances, and proofs, checked by TLAPS,
of what holds for every instance.

Paths below are relative to the root of the repository.

## 1. Inventory

All requests are served by one Go process, a goroutine per request, on one
PostgreSQL database at its default isolation level, READ COMMITTED. Nothing but
the hub and the rate limiter keeps state in memory.

| component | state | operations | what is hard |
| --- | --- | --- | --- |
| debts (`internal/debts`) | table `debts`: status, original and remaining amount | Accept, Reject (the debtor), ReviewRejected (the group owner) | three users act on one row in any order; a review resets the amounts; the notification is written afterwards |
| payments (`internal/payments`) | table `payments` | Mark, BulkMark (the debtor), Confirm, Reject (the creditor) | statements wait for row locks but read other tables from an older snapshot; two rows must change together; bulk marks can lock in different orders |
| money (`internal/money`) | none | ParseMinor, FormatMinor, SplitEqual, ValidateManualSplit | int64 overflow, remainders |
| groups (`internal/groups`) | tables `groups`, `group_members` | Create, AddMember | the owner check and the INSERT are separate statements |
| expenses (`internal/expenses`) | tables `expenses`, `expense_participants`, `debts` | Create, Get | many rows in one transaction; membership is read user by user; ids are compared as texts and as UUIDs; Get is three reads |
| notifications (`internal/notifications`) | table `notifications` | Create, MarkRead, MarkAllRead | row first, event later; either may be lost |
| realtime hub (`internal/notifications/hub.go`, `handlers/notifications.go`) | a map of users to clients, under a lock | Subscribe, Publish, remove | sends run with no lock held, while clients come and leave |
| rate limiter (`middleware/rate_limit.go`) | a map of keys to windows, under a lock | allow | windows open at any time; the map must not grow |
| sessions (`internal/sessions`, `handlers/auth.go`) | table `auth_sessions` | Create, Refresh (rotates the token), Revoke, RevokeAll, Validate | single use of a token; the token is replaced before checks that may fail |
| one-time codes (`internal/otp`, `handlers/otp.go`) | table `email_verifications` | CreateVerification, VerifyOTP, CheckCooldown | limits are checked in one statement and counted in another |
| users (`internal/users`) | table `users` | Register, Authenticate, UpdatePassword, MarkEmailVerified, UpdateUsername, GetByUsername, SearchByUsername | a password reset is three steps with no transaction; names move between users while they are being used |
| dashboard (`internal/dashboard`) | none | GetSnapshot | three reads, no transaction |
| router | the routes only | | one `Next` per module lists the operations it serves; the order in which a request is checked is planned |
| middleware, email, tokens, config, `cmd/api` | rate limiter and authentication only | | stateless glue, outside services, libraries |

Interactions:

- `expenses.Create` inserts the rows of `debts` from which `debts` and `payments`
  go on.
- `payments` locks rows of `debts`; `Confirm` updates a debt and a payment in one
  transaction.
- `debts`, `payments` and `expenses` call `notifications.Service.Create` after
  their commit and ignore its error.
- `notifications.Service` calls `Hub.Publish` in the goroutine of the request.
- The rate limiter stands in front of the routes of `handlers/auth.go` and
  `handlers/otp.go`.

What makes each component correct:

- debts and payments: no money appears or is lost; a debt follows its diagram
  from every interleaving; nothing is paid that was not accepted; a payment
  counts once; at most one payment of a debt is pending; no transaction hangs; the
  other party of a change is told once, unless a failure comes between.
- money: results are exact or refused.
- groups and expenses: an expense is whole or absent, its debts match its shares,
  and only members take part.
- notifications and hub: an event goes to the user it is for and to all of his
  working connections; the hub holds no client that is gone; no call hangs.
- rate limiter: bounded bursts, no unjustified refusal, no leak.
- sessions, codes, users: one live token per session, bounded guesses per code, a
  code spent once, no session that survives a reset; a name leads to the one who
  has it.

`PROJECT.json` lists the hazards of this code line by line, with the properties
that watch each of them.

## 2. The modules

| module | models | extends |
| --- | --- | --- |
| `Ledger` | `internal/debts`, `internal/payments`, `queries/payments.sql`, the debt part of `queries/expenses.sql` | |
| `DebtLifecycle` | what the API promises about a debt; `Ledger` implements it | |
| `LedgerProofs` | theorems about `Ledger` | `Ledger` |
| `Transactions` | the transactions of `internal/payments` row lock by row lock; it implements `Ledger` | (`Ledger` as an instance) |
| `TransactionsProofs` | theorems about `Transactions` | `Transactions` |
| `DebtCalls` | the calls of both services around the ledger: refusals and notifications | `Ledger` |
| `DebtCallsProofs` | theorems about `DebtCalls` | `DebtCalls`, `LedgerProofs` |
| `Money` | `internal/money` as operators on wrapping integers | |
| `MoneyCalls` | calls of those operators, compared with exact arithmetic | `Money` |
| `Expenses` | `internal/groups`, `internal/expenses`, with the notifications of a new expense | `Money` |
| `ExpensesProofs` | theorems about `Money`, `MoneyCalls` and `Expenses` | `Expenses`, `MoneyCalls` |
| `Notifications` | `internal/notifications` and the WebSocket handler | |
| `NotificationsProofs` | theorems about `Notifications` | `Notifications` |
| `RateLimiter` | `middleware.RateLimiter` | |
| `Dashboard` | `internal/dashboard` reading the rows of `Ledger` | `Ledger` |
| `DashboardProofs` | theorems about `Dashboard`, from those about `Ledger` | `Dashboard`, `LedgerProofs` |
| `Otp` | `internal/otp`, the sending and checking part of `handlers/otp.go` | |
| `Accounts` | `internal/sessions`, the rows of `internal/users`, `handlers/auth.go`, the verification and reset handlers of `handlers/otp.go` | |
| `AccountsProofs` | theorems about `Accounts` | `Accounts` |
| `Usernames` | the names in `internal/users`, `handlers/users.go`, and `AddMember` of `handlers/groups.go` | |
| `AccessProofs` | theorems about `Otp`, `RateLimiter` and `Usernames` | these three |
| `MC*` | finite values for the constants of a module, for TLC | the module |

Definitions named "Mutant" are plausible bugs. No specification uses them; each is
put in the place of the definition below it to see that a property notices.

### Ledger

`debt[d]` and `payment[p]` are rows, `request[r]` is a marking request under way.

| action | code |
| --- | --- |
| `AcceptDebt`, `RejectDebt`, `ReviewRejectedDebt` | the guarded UPDATEs behind `debts.Repository`; one statement each |
| `MarkBegin`, `MarkCommit` | `payments.Repository.Mark` |
| `BulkMarkBegin`, `BulkMarkCommit` | `payments.Repository.BulkMark` |
| `RollBack` | the deferred rollback: an error return, a cancelled request or a crash |
| `ConfirmPayment`, `RejectPayment` | `Confirm`, `Reject`; the payment and its debt are locked by the first statement |

The heart of the module is how a marking statement reads. `GetDebtForPaymentMark`
is one `SELECT ... FOR UPDATE` with a subquery that adds up the pending payments.
At READ COMMITTED the subquery sees the snapshot taken when the statement starts;
then the statement waits for the row lock and, if the debt row was updated in the
meantime, reads its newest version. So a request can hold the lock, a fresh debt
row, and a pending sum of before. `MarkBegin` takes the snapshot, `MarkCommit`
does everything from the granted lock to the commit; anything may happen between
the two. `BulkMark` is the same with a set of debts: the `NOT EXISTS` is of the
snapshot, the columns of the debt are checked again when the lock is granted. The
locks are not variables here: from the lock to the commit no other operation on
the debt can run, which is what one action says and `Transactions` justifies.

`Confirm` and `Reject` read nothing but the rows they lock, so each is an action.
The INSERTs of a bulk mark and its COMMIT are one action, here and in `Transactions`: a
failure between two INSERTs undoes them all, and that PostgreSQL does so is assumed.

The order in which a bulk mark visits the debts depends on `updated_at`. Times are
left out and every order is allowed. In this module amounts are small numbers; the
overflow of the sum in `BulkMark` is checked in `Money` (`BulkAdmits`). Marking
requests of a user who is not the debtor, of amounts too large and in wrong
statuses begin like any other and are refused at the commit.

The group owner of a debt is a constant: groups get their owner when they are
created, in one transaction with the owner's row, and no statement changes a role.

### Transactions

What `Ledger` does in one action, statement by statement. A transaction `tx[t]` has a
`plan`, the rows it will lock in their order, and has `locked` so many of them;
`holder[x]` is the transaction that has locked row `x`. A mark plans one debt; a
review plans its payment and then the payment's debt (one `SELECT ... FOR UPDATE OF p,
d`, which joins the debt to the payment it has locked); a bulk mark plans the debts
its snapshot chose, in the order of `updated_at` in that snapshot. Times are kept as
their order alone: `older` holds the pairs of debts of which the first was changed
earlier, and of open reviews, because the trigger dates a debt by the beginning of the
transaction that changes it (`Touched`). A row that was locked is read again (`saw`),
and a bulk mark drops the debts that no longer match.

| action | code |
| --- | --- |
| `MarkBegin`, `BulkMarkBegin`, `ReviewBegin` | BEGIN and the snapshot of the locking SELECT |
| `Lock` | one row lock is granted, the row is read as it is now |
| `MarkCommit`, `BulkMarkCommit`, `ConfirmCommit`, `RejectCommit`, `Refuse` | the checks, the writes and the COMMIT, or the error and the ROLLBACK |
| `Cancel` | the request is cancelled or the process dies: the deferred rollback |
| `BreakDeadlock` | PostgreSQL ends one transaction of a circle |
| `Decide` | a debtor or owner changes a debt in one statement, when no one holds its row |

`saw` and the snapshot are all a transaction acts on, so the refinement
(`ImplementsLedger`: the same `debt` and `payment`, and `request[t]` until the
transaction ends) says that a lock makes what was read stay true.

### DebtCalls

The services around `Ledger`. A handler that has changed something holds the set of
notices it still has to write (`Announcing`); each is written, fails or is lost with
the process. A handler of a debt whose UPDATE found no row looks the debt up in a
second statement (`LookUp`) before it answers. `told` is the table
of notifications as a bag, `lost` is history. Marks and their snapshots are those of
`Ledger`; `Crash` ends every handler and rolls back what is open.

### DebtLifecycle

A status, an agreed amount and what is owed, and three kinds of steps: the debtor
decides, the owner sends a refused debt back, a part is paid. `Ledger` implements
it under the mapping at its end (`status`, `original`, `remaining`).

### Money and MoneyCalls

Integers wrap at `MaxInt` as int64 does at 2^63 - 1 (`Wrap`); every addition the
code protects is wrapped in the model too, so a missing check would show. An
amount's text is the number before the point and the digits after it. `MoneyCalls`
makes one call at a time and compares the result with exact arithmetic, where a
sum is counted unit by unit.

### Expenses

A request to create an expense goes through the statements of its transaction one
by one: the checks of the creator, the payer and every participant (the order of
participants is that of a Go map, so any), the insert of the expense, then for each
participant his share and his debt, under the `UNIQUE` and `CHECK` constraints of
the tables, and the commit that makes all of it visible. `Abandon` is any error,
cancellation or crash. Other requests add members and create expenses in between.
After the commit the debtors are notified one by one (`Announce`, `AnnounceFails`);
a reader (`GetExpense`, `GetParticipants`, `GetDebts`) runs the three statements of
`Repository.Get`. `told` and `lost` are as in `DebtCalls`.

What `Get` reads can change under it: a review of a rejected debt overwrites its original
amount, which `ListDebtsByExpense` returns. `RejectDebt` and `ReviewRejectedDebt` are
these two statements, of debtors in `Rejecters` and with the debt's own amount or one of
`Adjustments`. So debts do not have to equal the shares: `resent`, a history, keeps the
amounts that reviews have set, and a debt is its share or one of these (`Agreed`).
Acceptance and payments leave the amount alone and are in `Ledger`.

Ids are texts, and `UserOf` parses them: the code compares texts, the database
compares what they are parsed to. The instance gives one user two spellings.

### Notifications

`hub[u]` is the set of clients of user `u`; `handler[c]` is how far the goroutine of
connection `c` has come; `up` are the connections that work; `request[r]` is a call
of the service: the write of the table, the second statement that counts unread
rows (which can fail, and then nothing is published), the copy of the clients
under the read lock, and the sends, one client at a time, with no lock. A send
fails because the connection is broken or because the deadline of five seconds is
over; the WebSocket library then closes the connection, and the hub forgets the
client. Whether a send succeeds is up to the client: one that is connected and never
reads is a `Send` that is never taken. The goroutine of a connection sees its read fail and unsubscribes, whether
or not the hub still lists it. `Crash` ends the process and leaves the rows.

The model begins where `websocket.Accept` has succeeded. Behind `app.NewRouter`
every request passes `requestLogger`, whose `statusRecorder` offers neither
`Hijack` nor `Unwrap`; whether an upgrade can succeed there depends on the library
and is a question of its own, listed among the hazards.

### RateLimiter

A clock that ticks up to `MaxTime`, the map of windows and, to state properties, the
history `admitted`: for each key the times at which it got through, in order. `allow`
holds the mutex from first to last, so a call is one step. `maxRequests` is any of
`Limits` and then fixed, zero included (the limiter then refuses everything).

### Dashboard

One reader beside the whole of `Ledger`: every step is a step of the ledger or one
of the reader's three SELECTs (`ReadTotals`, `ReadUnsettled`, `ReadPersons`) or its
end. At READ COMMITTED each SELECT sees what was committed when it started, so a
snapshot mixes up to three states. Readers change nothing, so one stands for any
number, and `Readers` may leave out users whose answers nobody looks at. The queries
are operators on the rows; names, titles and the order by time are left out (the
preview takes any debts that the order could put first, tasks before others).

### Otp

The rows of `email_verifications` for one address and one purpose, and the calls
on them; every query names an address and a purpose, so rows of others cannot meet
these. There is no transaction in this component: a sender runs `CheckCooldown`,
`CountRequests`, `ExpireOld` and `CreateCode` as separate statements, and a call that
checks a code runs `ReadCode` (the SELECT and the comparisons made on what it
returned) and then either `IncrementAttempt` or `MarkVerified`, on a row that may
have changed. Time is what it does to a row, three flags: `cooling`, `recent` and
`expired`. `created_at` is the database's clock and `expires_at` of a new row the
program's, so rows leave the cooldown and the window in order and expire in any order.
`ExpireOld` sets `expires_at` to `now()` of the database
(`internal/otp/repository.go:191-201`), and `verify` compares it with the program's clock
(`internal/otp/service.go:144`). The model makes such a row expired at once: it assumes
that the program's clock is not behind the database's. Were it behind, a replaced code
would live on for the difference. `LiveCodesBounded` and `ReplacedCodesStayDead`, and
their theorems, rest on this assumption. The
UPDATE of `MarkVerified` has no guard, hence a row counts its `uses`.

### Accounts

The rows of `users` and `auth_sessions` and the handlers that change them, each a
sequence of statements with no transaction around them; `Fail` ends a handler
between any two (an error, a cancelled request, a lost answer, a crash).

| actions | code |
| --- | --- |
| `Register`, `Login`, `VerifyBegin`, `MarkEmailVerified`, then `CreateSession`, `Answer` | the three ways into an account |
| `Refresh`, `RefreshCheck`, `Answer` | the guarded UPDATE of the token hash, then the check of the account's deadline, then the answer |
| `LogoutBegin`, `Revoke` | the validation by the middleware, then the UPDATE |
| `ResetBegin`, `UpdatePassword`, `RevokeAllUserSessions` | a reset; it begins where `VerifyOTP` has accepted a code (module `Otp`) |
| `SessionExpires`, `DeadlinePasses` | time |

A refresh token is a session and a generation number, a password is the number of
changes. `client[i]` is what the client of session `i` knows. `proved` and `opened`
date a session by passwords (when its client proved who it was, when the row was
inserted); `spent`, `missed` and `halted` are history. They are no columns, no
guard reads them, and only properties do.

### Usernames

Names as sequences of characters. The service trims and lowers what a client types
and compares it with a pattern (`Normalized`, `ValidName`); a search turns it into a
`LIKE` pattern with its underscores escaped (`SearchPattern`), and `Like` is what
PostgreSQL makes of such a pattern, element by element: an escaped character is one
element, and `places` says how far the elements so far can lead in the name. The rows
that the `LIMIT` leaves are those that few enough come before (`Leading`). `FindMember` and
`InsertMember` are the two steps of the handler that adds a member by name; between
them `Register` and `UpdateUsername` move names. `bearers` is history: who had the name
when it was looked up, whomever the lookup found. The order of names is that of their characters, given
by the constant `NameChars`; the property needs only that a name comes before the
longer names that begin with it, which every collation does.

## 3. The runs

| run | instance | what it shows |
| --- | --- | --- |
| `ledger` | 2 debts, 3 payment ids, 2 overlapping marking requests, amounts up to 2 | invariants, action properties and the refinement, all with stale snapshots possible; no debt has more pending payments than requests overlap |
| `ledger_overlap` | 1 debt, 2 payment ids, 2 marking requests | expected violation, see Findings |
| `transactions` | 2 debts of 2 units, 2 transactions, 1 payment (the steps that insert a second are checked and not followed) | locks, waits, deadlocks and rollbacks: the refinement of `Ledger`, who can deadlock and why, and that every transaction ends |
| `debt_calls` | 2 debts of 1 unit with different owners, 2 handlers, 4 notices that are written or lost | every change is announced once or lost for a failure |
| `money` | int64 shrunk to 9 bits (`MaxInt` = 255); texts, totals and shares near 0, 100 and the maximum | exactness at every boundary; the sum of a bulk mark errs on one side only |
| `expenses` | 3 users with 4 spellings, 1 group, 2 expense ids, 2 requests, 22 bodies, 2 users who reject, reviews that set an amount of 3 | atomic expenses, whole for readers too although reviews change what they read, members only, each debtor told |
| `notifications` | 1 user with 2 connections, 2 calls, 1 notification | the hub under interleaved calls, failures and crashes, and liveness |
| `rate_limiter` | 2 keys, limits 0 to 2, a window of 3 ticks, 6 ticks | windows and their boundaries |
| `dashboard` | 2 users who owe each other, 2 payment ids, 1 marking request, amounts up to 2, a preview of 1 debt | the three queries agree on every state; a snapshot mixes states but shows no money that nobody owes |
| `otp` | 2 senders, 2 guessers, 2 attempts, 1 request per window, 3 codes | by how much overlapping calls may pass each limit, and no further |
| `accounts` | 1 user, 2 overlapping requests, 2 sessions, 2 refreshes, 1 change of password | tokens spent once, clients that can go on, resets against logins and refreshes |
| `usernames` | 3 users, 1 group, 1 handler, 12 texts over `a`, `b`, `_`, `A`, `%` and the blank, 1 result per search | searches by prefix, the right member added by name |

Why the bounds are enough. In the ledger two requests are what it takes for a stale
read, two debts what it takes for a bulk mark to split an amount, amounts up to 2
what it takes for a partial payment, and three payment ids allow a stale pair of
payments next to a confirmed one; the proofs remove the bounds. All debts are owed by one
user to another, and the owner is the creditor, so one user plays two roles. In
`money` the constants of the code (100 units, two digits) stay as they are, and 255
lies between multiples of 100 as 2^63 - 1 does, so the guard on the major part meets
both outcomes. `MaxTime` leaves room for two windows. In `otp` the limits are small, so that
two calls that overlap stand on both sides of each; three codes give a replaced code,
its replacement and one more. In `accounts` one user is enough because no statement
of a handler touches rows of two users; two sessions show that a reset ends all and
not one. In `expenses` an
amount of 3 is less than some shares and more than others, and two debts of one expense
can be rejected at a time. Decided debts are followed where there is one expense and
all that goes on is to read it (`DecisionsAlone`, a constraint): no other request of
this module reads a debt. In `transactions` two connections and two debts are what a circle of bulk
marks takes; a mark by somebody who is not the debtor takes the same lock and is
refused, so only the right callers are followed (`RightCallers`, a constraint, as are
`FullDebts` and `OnePayment`: TLC checks the states beyond them but not their
successors). In `debt_calls` four notices are two debts accepted and paid by one bulk
mark, or one debt that goes round a rejection and a review; the same constraints keep
debts at one unit and marks with their debtor (`FewChanges`, `RightMarkers`,
`SmallDebts`). In `usernames` one result per search makes the limit bite as soon as two
names match, and the names differ by an underscore, by a letter and by length.

Sets of interchangeable ids are symmetric in the safety runs; the runs with liveness
(`transactions`, `notifications`) use no symmetry. Deadlock is checked in every run.

Fairness. In `notifications`: weak fairness for what a call that has begun can do
without its clients (`Proceed`). Goroutines that can run do, and a send that does not
succeed ends when its five seconds are over (`handlers/notifications.go:142`); that a
send succeeds is not assumed. In
`transactions`: weak fairness for the end of a transaction that has its locks, and for
the deadlock detector; strong fairness for `Lock`, because PostgreSQL queues those who
wait for a row, so that nobody is overtaken for ever. Nothing is assumed of clients,
of the network or of new calls.

The properties are stated, each with its reason, at the end of every module.

## 4. Findings

`ledger_overlap`: `docs/implementation.md:386` requires that of two requests that
mark a payment for the same debt only one creates a pending payment, and
`docs/BRS.md:238-239` and `docs/ERD.md:306-307` allow no second pending payment of a
debt, and none that goes beyond what is left of it. The code takes
the pending sum from the snapshot of a statement that may then wait for the lock,
so both can create one. The trace: both requests start their SELECT, the first
commits, the second is granted the lock with a sum of 0 and commits as well. The
damage is limited, and the other runs and the theorems say how: no confirmation
takes the debt below zero, and all books stay right; the second payment may only
become impossible to confirm. With one marking request at a time the rule holds
(`PendingBounded`, proved).

More things the runs taught, which no document of the repository denies.

- With two senders at a time both may expire the old codes before either inserts its
  own; both codes then live, and once the newer one is spent the older one is the
  active row again. `ReplacedCodesStayDead` says how far back that can reach: to a
  code that fewer codes replaced than senders overlap.
- Two bulk marks can deadlock. Both lock in the order of `updated_at`, which the code
  chose to avoid this, but in the order that each saw: a confirmation that commits
  between their snapshots moves a debt to the end for one of them.
  `DeadlocksNeedAConfirmation` is exactly this, and `OnlyBulkMarksDeadlock` that
  nothing else can. One of the two then fails with an error and changes nothing.
- The sum in `BulkMark` has no check for overflow. When it wraps, an amount that the
  debts could take is refused; one that they could not is never admitted
  (`OnlyOverflowRefuses`).
- Between the lookup of a name and the INSERT the name can pass to another user; the
  one who had it when the owner asked is added (`AddedMembersBoreTheName`).
- A login that compared the old password before a reset and inserts its session
  after the reset's revocation leaves a session that the reset did not end:
  `ResetsEndSessions` speaks of the sessions that were there,
  `OldPasswordsOpenLittle` bounds the others by the requests that overlap the reset,
  and says that there are none where nothing overlaps.

## 5. What is proved

`LedgerProofs` holds the theorems, for any sets of debts, users, payments and
requests and any bound on amounts (`LedgerAssumption`: parties of a debt are two
different users; debts and payments are finite sets).

The inductive invariant `Inv` is the conjunction of `TypeOK`, `MoneyConserved`,
`StatusTellsRemaining`, `PaymentsNeedAcceptance` and `PaymentFitsDebt` (a payment is
from the debtor to the creditor and within the debt). None is
inductive alone:

- that a confirmation leaves `remaining` at zero or more, and the conserved sum
  intact, needs the payment's amount to be counted once (`ConfirmMovesAmount`);
- a review of a rejected debt overwrites `original` and `remaining`, which keeps the
  sum only because such a debt has no payment (`PaymentsNeedAcceptance`), and that
  holds because marks check the status under the lock and no operation leads from
  `accepted` back;
- the status is right after a confirmation because `remaining` was within
  `original` before (`RemainingWithinOriginal`, from the conserved sum).

Sums are cardinalities of sets of units (`Units`, `Total`), so that facts about
finite sets, and no induction, prove them: `TotalOfNothing`, `TotalAddsOne`. That a
`Mark` and a `BulkMark` only insert pending, well-formed payments of payable debts is
said once (`Inserted`, `MarkInserts`, `BulkMarkInserts`), and the stale values they
have read play no part in it: this is why the overlap does no more harm. From `Inv`
follow the action properties `PaymentsAreFinal` and `OnlyConfirmationPays`, and the
refinement: `LedgerImplementsLifecycle`.

`PendingIsBounded` counts, for a debt, its pending payments and the marking requests
that could still add one on a stale sum: together they are no more than `Requests`
(`StepOnDebt`, `BoundKept`). With one request there is one pending payment
(`OneMarkerOnePending`).

`BulkMarksPlaceAll` is an action property of the loop of `BulkMark`: the payments
inserted add up to what was asked for, none is beyond its debt and no debt gets two.
The loop is a recursive function (`left`), about which induction would speak. The
library's induction theorems cannot be instantiated here, but its well-founded orders
can: a set of numbers that is not empty has a least one (`LeastNumber`, from `WFMin`),
so a number at which a claim fails has a first one, where it still held just before.
In this way `left` is shown to fall from the amount to zero and the payments to be its
steps, whose units cut the range of the amount into slices (`SlicesAddUp`).

`AccessProofs` holds about `Otp`, for any finite sets of calls and any limits:
`GuessesAreBounded`, `UsesAreBounded`, `LiveCodesAreBounded`, `RequestsAreBounded` and
`ReplacedCodesAreDead`. Each bound needs a strengthening that counts the calls under
way as if they had acted: guesses being compared are added to the attempts of their
row; a call that will mark a row is added to its uses, and a row that was spent has at
most the holders it had then (`SpentBounded`); a sender that has expired the old codes
counts as a live code (`LiveOrComing`); one that has counted the requests counts as a
request (`RecentOrComing`); and the codes newer than a live one and the senders about
to insert one are together fewer than the senders (`NewestLive`).

`TransactionsProofs` holds, for any sets of transactions, users, payments and debts
(finite, `TransactionsAssumption`): `TransactionsImplementLedger`, step by step, and
`OnlyBulkMarksWaitInCircles`, for circles of any length. The invariant (`IInv`) says of
each transaction that its plan names the rows its operation locks (`Planned`), that it
holds exactly the rows it has locked, and that these are still as it has read them
(`Locking`), and that the rows given to a bulk mark are the locked ones that are
payable (`Returning`). With
it a commit is a step of `Ledger`, a lock is a stutter, and a rollback is `RollBack`.
Through this refinement the theorems of `LedgerProofs` hold of the transactions
(`TransactionsKeepTheBooks`). A mark
holds no row when it waits, and a review waits for a debt while it holds a payment, for
which only reviews wait; so neither can close a circle.

`DeadlocksTakeAConfirmation` says when bulk marks can: two that wait for each other
have seen one of the two debts differently, because a confirmation took from it
between their snapshots. The invariant (`OrderInv`) is about the order of times: a
bulk mark locks the debts whose remaining amount is still what it saw in the order in
which they still are (`SeenOK`), because nothing but a confirmation touches an accepted
debt, and each takes something (`DebtsAge`); so two that saw the same of two debts
lock them in the same order (`Agree`). `LocksAreTyped` is the type invariant.

`DebtCallsProofs` holds, for any debts, users and handlers, `ChangesAreAnnouncedOnce`
and that the books of the ledger survive a crash at any moment
(`BooksSurviveCrashes`). The invariant (`CallsInv`) adds up, for each notice there
could be, the rows in the table, the losses and the handlers that still have to write
it: that sum is what the row of the debt or of the payment says must have been
announced (`Announced`), one for a settled payment, the rejections ahead of the
reviews by one for a rejected debt.

`ExpensesProofs` begins with the arithmetic, for any width of the integers that
`MoneyAssumption` allows: `TextsParseExactly`, `SplitsAddUp` and `BulkTotalsAreExact`. The
code adds up in a loop, on integers that wrap (`RunningSum`); the property counts a
sum unit by unit, without width. That the two agree where the code accepts, and that
it refuses where they would not, rests on three lemmas: a loop computes something
(`LoopsRun`), the exact partial sums stand in a one-to-one relation with the units
(`UnitsAddUp`), and a partial sum that has passed the maximum is noticed when it does.

It goes on with `SharersAreMembers` and `DebtorsAreToldOnce`, for any groups, bodies
and requests (`ExpensesAssumption`: a body names users by ids that can be parsed).
Both rest on the ids of expenses: a transaction that writes rows does so under an id
that no committed row and no other writing transaction has (`Reserved`), so what it
commits can be told from everything else (`RowsBelong`). What it has checked stays
true because members are never removed (`Checked`, `CheckedStays`), and a group has
members only once it was created. The notices due are disjoint between requests
(`DuesApart`), which is why each is written or lost once.

`ExpensesStayWhole` needs both halves: every committed expense has a row and a share
for each participant of its body, a debt for each but the payer, and the shares add up
to its amount, while the amount of a debt is the share or what a review has made of it;
and what `Get` reads in three statements belongs together. The
invariant `WInv` says of a transaction that what it has written are the rows of its first
`done` participants, which passed the constraints (`Written`), and of a reader that the
expense and shares it has read are still what there is, and went with the debts when it
read these (`Current`). A rejection or a review makes of a debt one of the same parties
(`Redone`), which leaves its expense whole (`RedoneKeeps`). The sum of the shares is that of
`SplitsAddUp`; the unique constraints make rows and participants correspond
(`FitUpTo`), though a user can be spelled in two ways.

`NotificationsProofs` holds `TheHubIsExact` and `NobodyIsSkipped`, for any users,
connections and calls, of `SafetySpec`: neither needs fairness. The invariant says of
a call that it knows only connections that have listened, that those which listened
when the table changed and still do are in the copy it made, and that those it has
served have the event or have left (`Serves`). It is inductive because nobody who
leaves the hub comes back.

`AccountsProofs` holds `EachTokenIsSpentOnce`, `ClientsCanGoOn`,
`ResetsEndOldSessions` and `OldPasswordsOpenFewSessions`, for any users and any finite,
non-empty set of requests (`AccountsAssumption`; the bounds of the model may be any
numbers). All but five kinds of steps are `Plain`: they neither change a password nor
open, refresh or end all sessions, and what they keep is said once. The
strengthenings: the spent tokens of a session are exactly those below the one that
counts (`SpentInOrder`); a reset stays unfinished until a reset of that user is
finished (`Unfinished`); and a handler that compared a password which has changed
since counts as the stray session that it will open (`FewStrays`), while the
handler that revokes is not one of these, hence the bound.

`DashboardProofs` holds `OwedFallsByConfirmation`. A reader changes nothing, so the
behaviours of `DashboardSpec` are behaviours of `Ledger` and its invariants hold; then
a step adds one summand, takes one away, or changes one by the payment's amount.
`QueriesAlwaysAgree` is of one state: the rows of the third query cut the debts that
the first one adds up into parts (`RowsAddUp`). `LaterPartsAddOnlyAccepted` is of the
states between two reads. The invariant (`ReaderOK`) bounds what a later part can add
by the original amounts of the debts accepted since the earlier one: a step of the
ledger accepts one debt, or makes none payable and leaves no more of any (`StepTakes`).

`AccessProofs` also holds `LimitsAreFair`, for any keys, any limit and any window. A
stretch as long as a window can meet two windows of the limiter, so at most twice
the limit passes in it. `LimiterInv` says why, of the moment: the window that is open
counts what passed since it opened, and what passed in the length of a window before
its beginning is within the limit (`WindowFits`); with no window open it is what
passed in the last length of a window (`NoWindow`). A refusal finds a full window, hence
as many requests as the limit in that time (`RefusalFits`).

About names it holds `MembersBoreTheirName`, whatever names pass to others between
lookup and INSERT, and `SearchesGoByPrefix`. Names are valid and unique
(`NamesAreGood`); a name is like the pattern of a query exactly if it begins with the
query (`LikeIsPrefix`, on the recursive function in `Like`); `Before` is a strict
total order on names (`BeforeIsTotal`, `BeforeIsStrict`, `BeforeIsTransitive`), so the rows
that fewer than the limit come before are all rows or exactly the limit (`TopIsFull`);
and of all names that begin with the query none comes before the query itself.

All properties of passing runs but two are stated by a theorem. The two are
liveness, `EveryTransactionEnds` and `CallsEnd`: the prover has no
rules for ENABLED and fairness, so they stay with TLC. What is specific to the proofs
is stated with them: the provers know nothing of recursive operators, so the models
have recursive functions, and every claim about one goes by the first number at which
it would fail. The assumptions on constants are those of the modules
(`LedgerAssumption` and its like): finite sets where the program's tables are finite,
parties of a debt that differ, names over characters that mean nothing in a pattern,
ids that can be parsed. TLC evaluates each of them on every run of its module.

## 6. What is not modelled

- List and detail queries of debts, payments and groups: they change nothing and
  decide nothing. The readers whose answers are put together from several statements
  are modelled: `Dashboard`, `Get` of an expense, the search of users.
- The code that scans rows in `internal/postgres/sqlc`; its statements, generated from
  `queries/`, are what the modules translate.
- Password hashing, the signatures of access tokens and the email service: calls into
  libraries and outside systems. The modules take their results.
- Configuration, start and shutdown: read once, before and after everything else.
- The router beyond the limits it applies: a table, with no state of its own. The
  upgrade of a connection is the library's.
- Display names, and the formatting of responses.
- The order in which a client takes its events, and the unread count sent with them:
  the rows are the source of truth (`docs/ERD.md:329`), and a client is not in `src/`.

## 7. Plan

Modules, in this order:

1. `Ledger`, `DebtLifecycle`, `LedgerProofs` (done): the money.
2. `Money`, `MoneyCalls`, `Expenses`, `ExpensesProofs` (done): where debts come from.
3. `Notifications`, `NotificationsProofs`, `RateLimiter` (done): the state kept in memory.
4. `Otp`, `AccessProofs` (done): limits checked in one statement and counted in another.
5. `Accounts`, `AccountsProofs` (done): sessions and passwords, without transactions.
   `Dashboard`, `DashboardProofs` (done): a reader beside the ledger.
6. `Transactions`, `TransactionsProofs` (done): the row locks, and the deadlock that
   PostgreSQL resolves.
7. `DebtCalls`, `DebtCallsProofs` (done): a change and its announcement.
   `Usernames` (done): searches, and members added by name.
8. `Expenses` with `Ledger`; the unread count; the largest sums of the dashboard; the
   router.

Abstract specifications worth stating: the life cycle of a debt (done), the ledger as
what the transactions implement (done), the life cycle of a session.

Theorems worth proving next: that a transaction which has its locks can end, as a
safety property of the plans (the part of `EveryTransactionEnds` that needs no fairness);
that calls of `DebtCalls` refine a service which announces in the same step; the bounds
of `Accounts` for several users with one statement each.
