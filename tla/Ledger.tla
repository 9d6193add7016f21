------------------------------- MODULE Ledger --------------------------------
(***************************************************************************)
(* The debts and payments tables of the database and the operations that   *)
(* internal/debts and internal/payments run on them.                       *)
(*                                                                         *)
(* Every transaction runs at PostgreSQL's default level, READ COMMITTED.   *)
(* An operation that is one UPDATE, or that reads all it checks from rows  *)
(* it has locked, is one action.  Mark and BulkMark are two: the SELECT    *)
(* ... FOR UPDATE that opens them reads the payments table from the        *)
(* statement's snapshot when it starts, then waits for the debt's row      *)
(* lock and reads the debt row as it is once the lock is granted.          *)
(* Payments committed during that wait are not seen.  From the lock to the *)
(* commit nobody else can touch the debt, so that part is one action.      *)
(*                                                                         *)
(* Timestamps, notes and notifications are left out.                       *)
(***************************************************************************)
EXTENDS Integers, FiniteSets, Functions

CONSTANTS
    Users,
    Debts,
    Debtor,      \* Debtor[d], Creditor[d]: the two users of debt d
    Creditor,
    GroupOwner,  \* GroupOwner[d]: the owner of the group of d's expense
    Payments,    \* the ids the payments table has room for
    Requests,    \* marking requests that may be under way at one time
    MaxAmount    \* the largest amount of money, in minor units

ASSUME LedgerAssumption ==
    /\ Debtor \in [Debts -> Users]
    /\ Creditor \in [Debts -> Users]
    /\ GroupOwner \in [Debts -> Users]
    /\ \A d \in Debts : Debtor[d] # Creditor[d]
    /\ IsFiniteSet(Payments)
    /\ IsFiniteSet(Debts)
    /\ IsFiniteSet(Requests)
    /\ MaxAmount \in Nat

VARIABLES
    debt,       \* debt[d]: the row of debt d
    payment,    \* payment[p]: the row of payment p, for the ids in use
    request     \* request[r]: the marking request r and what it has read

vars == <<debt, payment, request>>

-------------------------------------------------------------------------------
Amounts == 1..MaxAmount

DebtStatuses == {"pending", "accepted", "rejected", "partially_settled", "settled"}
PaymentStatuses == {"pending_confirmation", "confirmed", "rejected"}

\* canMarkPaymentForDebt and canConfirmPaymentForDebt.
PayableStatuses == {"accepted", "partially_settled"}

DebtRow == [status : DebtStatuses, original : Amounts, remaining : 0..MaxAmount]

PaymentRow == [status : PaymentStatuses, debt : Debts, paidBy : Users,
               receivedBy : Users, amount : Amounts]

Idle == [kind |-> "idle"]

MarkRequest == [kind : {"mark"}, user : Users, debt : Debts, amount : Amounts,
                pendingSeen : Nat]

BulkRequest == [kind : {"bulk"}, user : Users, receiver : Users, amount : Amounts,
                seen : SUBSET Debts]

\* A sum of money is counted unit by unit: Total(f) is the sum of f[x].
Units(f) == {u \in (DOMAIN f) \X Amounts : u[2] <= f[u[1]]}
Total(f) == Cardinality(Units(f))

PaymentsOn(d, status) ==
    {p \in DOMAIN payment : payment[p].debt = d /\ payment[p].status = status}

AmountsOf(ids) == [p \in ids |-> payment[p].amount]

\* The SUM of GetDebtForPaymentMark.
PendingTotal(d) == Total(AmountsOf(PaymentsOn(d, "pending_confirmation")))

ConfirmedTotal(d) == Total(AmountsOf(PaymentsOn(d, "confirmed")))

FreshIds == Payments \ DOMAIN payment

\* CreatePayment, once for each id of rows.
InsertPayments(rows) ==
    payment' = [p \in DOMAIN payment \cup DOMAIN rows |->
                  IF p \in DOMAIN rows THEN rows[p] ELSE payment[p]]

-------------------------------------------------------------------------------
(* Debts: one guarded UPDATE each. *)

\* The debts as expenses.Create leaves them.
Init ==
    /\ debt \in {[d \in Debts |-> [status |-> "pending", original |-> share[d],
                                   remaining |-> share[d]]] : share \in [Debts -> Amounts]}
    /\ payment = [p \in {} |-> {}]
    /\ request = [r \in Requests |-> Idle]

\* Mutant: the UPDATE loses its status guard.
AcceptDebtUnguarded(d, user) ==
    /\ user = Debtor[d]
    /\ debt' = [debt EXCEPT ![d].status = "accepted"]
    /\ UNCHANGED <<payment, request>>

AcceptDebt(d, user) ==
    /\ user = Debtor[d]
    /\ debt[d].status = "pending"
    /\ debt' = [debt EXCEPT ![d].status = "accepted"]
    /\ UNCHANGED <<payment, request>>

\* Mutant: an accepted debt can still be refused.
RejectDebtLate(d, user) ==
    /\ user = Debtor[d]
    /\ debt[d].status \in {"pending", "accepted"}
    /\ debt' = [debt EXCEPT ![d].status = "rejected"]
    /\ UNCHANGED <<payment, request>>

RejectDebt(d, user) ==
    /\ user = Debtor[d]
    /\ debt[d].status = "pending"
    /\ debt' = [debt EXCEPT ![d].status = "rejected"]
    /\ UNCHANGED <<payment, request>>

\* Mutant: the owner can send back a debt in any status.
ReviewAnyDebt(d, user, amount) ==
    /\ user = GroupOwner[d]
    /\ debt' = [debt EXCEPT ![d] = [status |-> "pending", original |-> amount,
                                    remaining |-> amount]]
    /\ UNCHANGED <<payment, request>>

\* amount is the adjusted amount or, when the owner sends none, the original.
ReviewRejectedDebt(d, user, amount) ==
    /\ user = GroupOwner[d]
    /\ debt[d].status = "rejected"
    /\ debt' = [debt EXCEPT ![d] = [status |-> "pending", original |-> amount,
                                    remaining |-> amount]]
    /\ UNCHANGED <<payment, request>>

-------------------------------------------------------------------------------
(* Payments. *)

\* GetDebtForPaymentMark starts: the pending sum is that of its snapshot.
MarkBegin(r, user, d, amount) ==
    /\ request[r] = Idle
    /\ request' = [request EXCEPT ![r] =
                     [kind |-> "mark", user |-> user, debt |-> d, amount |-> amount,
                      pendingSeen |-> PendingTotal(d)]]
    /\ UNCHANGED <<debt, payment>>

\* What Mark checks once it holds the debt's row lock.
CanMark(req) ==
    /\ req.user = Debtor[req.debt]
    /\ debt[req.debt].status \in PayableStatuses
    /\ req.pendingSeen <= 0
    /\ req.amount <= debt[req.debt].remaining - req.pendingSeen

MarkCommit(r) ==
    LET req == request[r]
    IN  /\ req.kind = "mark"
        /\ CanMark(req)
        /\ \E p \in FreshIds :
             InsertPayments([q \in {p} |->
               [status |-> "pending_confirmation", debt |-> req.debt, paidBy |-> req.user,
                receivedBy |-> Creditor[req.debt], amount |-> req.amount]])
        /\ request' = [request EXCEPT ![r] = Idle]
        /\ UNCHANGED debt

\* The condition on the debt row that PostgreSQL checks again once it is locked.
BulkPayable(d, user, receiver) ==
    /\ Debtor[d] = user
    /\ Creditor[d] = receiver
    /\ debt[d].status \in PayableStatuses
    /\ debt[d].remaining > 0

\* Mutant: the query loses its NOT EXISTS.
BulkMarkBeginAnyDebt(r, user, receiver, amount) ==
    /\ request[r] = Idle
    /\ receiver # user
    /\ request' = [request EXCEPT ![r] =
                     [kind |-> "bulk", user |-> user, receiver |-> receiver, amount |-> amount,
                      seen |-> {d \in Debts : BulkPayable(d, user, receiver)}]]
    /\ UNCHANGED <<debt, payment>>

\* ListBulkPaymentDebtsForUpdate starts: NOT EXISTS is that of its snapshot.
BulkMarkBegin(r, user, receiver, amount) ==
    /\ request[r] = Idle
    /\ receiver # user
    /\ request' = [request EXCEPT ![r] =
                     [kind |-> "bulk", user |-> user, receiver |-> receiver, amount |-> amount,
                      seen |-> {d \in Debts : /\ BulkPayable(d, user, receiver)
                                              /\ PaymentsOn(d, "pending_confirmation") = {}}]]
    /\ UNCHANGED <<debt, payment>>

\* The rows the query returns: those still payable when their lock is granted.
Locked(req) == {d \in req.seen : BulkPayable(d, req.user, req.receiver)}

\* Mutant: the total is taken over the original amounts.
AvailableOriginal(req) == [d \in Locked(req) |-> debt[d].original]

Available(req) == [d \in Locked(req) |-> debt[d].remaining]

Least(a, b) == IF a <= b THEN a ELSE b

\* left[i] is what the loop still has to place after the i-th debt of order.
Allocates(left, order, amount) ==
    /\ left[0] = amount
    /\ \A i \in DOMAIN order :
         left[i] = left[i - 1] - Least(debt[order[i]].remaining, left[i - 1])

\* The rows come in the order of updated_at; the times are left out, so in any.
BulkMarkCommit(r) ==
    LET req == request[r]
        n == Cardinality(Locked(req))
    IN  /\ req.kind = "bulk"
        /\ Locked(req) # {}
        /\ req.amount <= Total(Available(req))
        /\ \E order \in Bijection(1..n, Locked(req)), left \in [0..n -> 0..req.amount] :
             /\ Allocates(left, order, req.amount)
             /\ \E ids \in SUBSET FreshIds :
                \E at \in Bijection(ids, {i \in 1..n : left[i - 1] # 0}) :
                  InsertPayments([p \in ids |->
                    [status |-> "pending_confirmation", debt |-> order[at[p]],
                     paidBy |-> req.user, receivedBy |-> req.receiver,
                     amount |-> left[at[p] - 1] - left[at[p]]]])
        /\ request' = [request EXCEPT ![r] = Idle]
        /\ UNCHANGED debt

\* Every error return, a cancelled request and a crash end the transaction so.
RollBack(r) ==
    /\ request[r] # Idle
    /\ request' = [request EXCEPT ![r] = Idle]
    /\ UNCHANGED <<debt, payment>>

\* Mutant: the UPDATE subtracts from the original amount.
PaidDownOnce(row, amount) ==
    [row EXCEPT !.remaining = row.original - amount,
                !.status = IF row.original - amount = 0 THEN "settled" ELSE "partially_settled"]

\* Mutant: the CASE tests the amount before the payment.
PaidDownNeverSettled(row, amount) ==
    [row EXCEPT !.remaining = @ - amount,
                !.status = IF row.remaining = 0 THEN "settled" ELSE "partially_settled"]

\* ApplyConfirmedPaymentToDebt.
PaidDown(row, amount) ==
    [row EXCEPT !.remaining = @ - amount,
                !.status = IF row.remaining - amount = 0 THEN "settled" ELSE "partially_settled"]

ConfirmPayment(p, user) ==
    LET d == payment[p].debt
    IN  /\ user = payment[p].receivedBy
        /\ payment[p].status = "pending_confirmation"
        /\ debt[d].status \in PayableStatuses
        /\ payment[p].amount <= debt[d].remaining
        /\ debt' = [debt EXCEPT ![d] = PaidDown(@, payment[p].amount)]
        /\ payment' = [payment EXCEPT ![p].status = "confirmed"]
        /\ UNCHANGED request

\* Mutant: a reviewed payment can be rejected.
RejectPaymentTwice(p, user) ==
    /\ user = payment[p].receivedBy
    /\ payment' = [payment EXCEPT ![p].status = "rejected"]
    /\ UNCHANGED <<debt, request>>

RejectPayment(p, user) ==
    /\ user = payment[p].receivedBy
    /\ payment[p].status = "pending_confirmation"
    /\ payment' = [payment EXCEPT ![p].status = "rejected"]
    /\ UNCHANGED <<debt, request>>

-------------------------------------------------------------------------------
DebtStep ==
    \E d \in Debts, user \in Users :
      \/ AcceptDebt(d, user)
      \/ RejectDebt(d, user)
      \/ \E amount \in Amounts : ReviewRejectedDebt(d, user, amount)

MarkStep ==
    \E r \in Requests :
      \/ \E user \in Users, d \in Debts, amount \in Amounts : MarkBegin(r, user, d, amount)
      \/ MarkCommit(r)
      \/ \E user, receiver \in Users, amount \in Amounts : BulkMarkBegin(r, user, receiver, amount)
      \/ BulkMarkCommit(r)
      \/ RollBack(r)

ReviewStep ==
    \E p \in DOMAIN payment, user \in Users : ConfirmPayment(p, user) \/ RejectPayment(p, user)

Next == DebtStep \/ MarkStep \/ ReviewStep

Spec == Init /\ [][Next]_vars

-------------------------------------------------------------------------------
(* Properties. *)

\* Rows and requests keep their shape, payment ids are among those there are.
TypeOK ==
    /\ debt \in [Debts -> DebtRow]
    /\ DOMAIN payment \subseteq Payments
    /\ payment \in [DOMAIN payment -> PaymentRow]
    /\ request \in [Requests -> {Idle} \cup MarkRequest \cup BulkRequest]

\* No money appears or is lost whatever overlaps: what is left of a debt and
\* the payments confirmed on it always add up to the debt's original amount.
MoneyConserved ==
    \A d \in Debts : debt[d].remaining + ConfirmedTotal(d) = debt[d].original

\* The status that Confirm's CASE computes tells how much has been paid.
StatusTellsRemaining ==
    \A d \in Debts :
      /\ debt[d].status = "settled" <=> debt[d].remaining = 0
      /\ debt[d].status = "partially_settled"
           <=> debt[d].remaining \in 1..(debt[d].original - 1)

\* A debt that its debtor has not taken on carries no payment, not even one
\* whose marking began before a rejected debt was sent back: Mark checks the
\* status under the lock and no operation leads back from "accepted".
PaymentsNeedAcceptance ==
    \A p \in DOMAIN payment : debt[payment[p].debt].status \notin {"pending", "rejected"}

\* A payment goes from the debtor of its debt to the creditor, and is never
\* larger than the debt it pays.
PaymentFitsDebt ==
    \A p \in DOMAIN payment :
      LET d == payment[p].debt
      IN  /\ payment[p].paidBy = Debtor[d]
          /\ payment[p].receivedBy = Creditor[d]
          /\ payment[p].amount <= debt[d].original

\* docs/implementation.md: "only one pending payment is created".
OnePendingPerDebt ==
    \A d \in Debts : Cardinality(PaymentsOn(d, "pending_confirmation")) <= 1

\* However marks overlap, no debt has more pending payments than there are
\* marking requests at a time: a mark that begins after one of them committed
\* sees its payment, so a stale sum can be used once by each request that
\* overlaps, and never again.
PendingBounded ==
    \A d \in Debts : Cardinality(PaymentsOn(d, "pending_confirmation")) <= Cardinality(Requests)

\* A payment's parties, debt and amount never change, and once confirmed or
\* rejected it stays so: two reviews of one payment cannot both count.
KeepsPayments ==
    \A p \in DOMAIN payment :
      /\ p \in DOMAIN payment'
      /\ payment'[p] # payment[p] =>
           /\ payment[p].status = "pending_confirmation"
           /\ payment'[p] \in {[payment[p] EXCEPT !.status = s] :
                                 s \in {"confirmed", "rejected"}}

PaymentsAreFinal == [][KeepsPayments]_vars

\* Once a debt is accepted its original amount is frozen, and what is left of
\* it falls only in the step that confirms a payment, by that payment's amount.
PaysByConfirmation ==
    \A d \in Debts : debt[d].status \notin {"pending", "rejected"} =>
      /\ debt'[d].original = debt[d].original
      /\ debt'[d] # debt[d] =>
           \E p \in PaymentsOn(d, "pending_confirmation") :
             /\ payment'[p].status = "confirmed"
             /\ debt'[d].remaining = debt[d].remaining - payment[p].amount

OnlyConfirmationPays == [][PaysByConfirmation]_vars

\* A bulk mark that commits places exactly the amount asked for, on different
\* debts, each within what is left of it at that moment.
NewPayments == DOMAIN payment' \ DOMAIN payment

BulkMarkPlacesAmount ==
    [][\A r \in Requests :
         (request[r].kind = "bulk" /\ request'[r] = Idle /\ NewPayments # {}) =>
           /\ Total([p \in NewPayments |-> payment'[p].amount]) = request[r].amount
           /\ \A p, q \in NewPayments : payment'[p].debt = payment'[q].debt => p = q
           /\ \A p \in NewPayments : payment'[p].amount <= debt[payment'[p].debt].remaining]_vars

-------------------------------------------------------------------------------
\* The debts follow the diagram of DebtLifecycle through every interleaving.
Lifecycle == INSTANCE DebtLifecycle WITH
    status <- [d \in Debts |-> debt[d].status],
    agreed <- [d \in Debts |-> debt[d].original],
    owed <- [d \in Debts |-> debt[d].remaining]

ImplementsLifecycle == Lifecycle!LifecycleSpec
===============================================================================
