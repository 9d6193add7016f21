------------------------------ MODULE DebtCalls --------------------------------
(***************************************************************************)
(* The calls of internal/debts and internal/payments as their services run *)
(* them: a change of the ledger is committed first, its notifications are  *)
(* written afterwards, one statement each, and an error there is ignored.  *)
(* A debt decision that changes nothing is explained by a second statement,*)
(* which may read a later state.  The process can die anywhere.            *)
(*                                                                         *)
(* The notifications table is the bag told of what was written and to      *)
(* whom; titles and texts are left out.  The bag lost is history: the      *)
(* notifications that were due and will never be written.                  *)
(***************************************************************************)
EXTENDS Ledger, Bags

VARIABLES
    call,    \* call[r]: what the handler r does, outside of a marking transaction
    told,    \* the notifications in the table
    lost     \* those that were due when a statement failed or the process died

callVars == <<call, told, lost>>
allVars == <<vars, callVars>>

-------------------------------------------------------------------------------
Notice(type, of, to) == [type |-> type, of |-> of, to |-> to]

Free == [at |-> "free"]

\* The ledger has changed and these notices are still to be written.
Announcing(todo) == [at |-> "announcing", todo |-> todo]

\* An UPDATE of debt d by user found no row.
LookingUp(op, d, user) == [at |-> "looking_up", op |-> op, debt |-> d, user |-> user]

IsFree(r) == call[r] = Free /\ request[r] = Idle

Pending(r) == IF call[r].at = "announcing" THEN call[r].todo ELSE {}

CallsInit ==
    /\ Init
    /\ call = [r \in Requests |-> Free]
    /\ told = EmptyBag
    /\ lost = EmptyBag

-------------------------------------------------------------------------------
(* Debts. *)

\* The user that the UPDATE of each operation asks for, and the status.
Decider(op, d) == IF op = "resend" THEN GroupOwner[d] ELSE Debtor[d]
Decidable(op) == IF op = "resend" THEN "rejected" ELSE "pending"

DecisionNotice(op, d) ==
    CASE op = "accept" -> Notice("debt_accepted", d, Creditor[d])
      [] op = "reject" -> Notice("debt_rejected", d, Creditor[d])
      [] op = "resend" -> Notice("debt_resent", d, Debtor[d])

Decide(r, op, user, d) ==
    /\ IsFree(r)
    /\ \/ op = "accept" /\ AcceptDebt(d, user)
       \/ op = "reject" /\ RejectDebt(d, user)
       \/ op = "resend" /\ \E amount \in Amounts : ReviewRejectedDebt(d, user, amount)
    /\ call' = [call EXCEPT ![r] = Announcing({DecisionNotice(op, d)})]
    /\ UNCHANGED <<told, lost>>

DecideNothing(r, op, user, d) ==
    /\ IsFree(r)
    /\ user # Decider(op, d) \/ debt[d].status # Decidable(op)
    /\ call' = [call EXCEPT ![r] = LookingUp(op, d, user)]
    /\ UNCHANGED <<vars, told, lost>>

\* classifyTransitionError and classifyReviewError.  Debts are never deleted.
Reason(c) == IF c.user # Decider(c.op, c.debt) THEN "forbidden" ELSE "invalid_state"

LookUp(r) ==
    /\ call[r].at = "looking_up"
    /\ call' = [call EXCEPT ![r] = [at |-> "refused", because |-> Reason(call[r])]]
    /\ UNCHANGED <<vars, told, lost>>

\* The refusal is sent, or the second statement fails.
Answer(r) ==
    /\ call[r].at \in {"looking_up", "refused"}
    /\ call' = [call EXCEPT ![r] = Free]
    /\ UNCHANGED <<vars, told, lost>>

-------------------------------------------------------------------------------
(* Payments. *)

\* Mutant: a bulk mark notifies of its first payment only.
MarkedNoticesOfOne(ids) ==
    LET p == CHOOSE q \in ids : TRUE
    IN  {Notice("payment_marked", p, payment'[p].receivedBy)}

\* notifyPaymentMarked, for each payment that was inserted.
MarkedNotices(ids) == {Notice("payment_marked", p, payment'[p].receivedBy) : p \in ids}

Mark(r) ==
    /\ call[r] = Free
    /\ \/ \E user \in Users, d \in Debts, amount \in Amounts : MarkBegin(r, user, d, amount)
       \/ \E user, receiver \in Users, amount \in Amounts : BulkMarkBegin(r, user, receiver, amount)
       \/ RollBack(r)
    /\ UNCHANGED callVars

MarkDone(r) ==
    /\ MarkCommit(r) \/ BulkMarkCommit(r)
    /\ call' = [call EXCEPT ![r] = Announcing(MarkedNotices(DOMAIN payment' \ DOMAIN payment))]
    /\ UNCHANGED <<told, lost>>

\* Reviews that are refused leave no trace: they read what they refuse on.
Review(r, op, user, p) ==
    /\ IsFree(r)
    /\ \/ op = "payment_confirmed" /\ ConfirmPayment(p, user)
       \/ op = "payment_rejected" /\ RejectPayment(p, user)
    /\ call' = [call EXCEPT ![r] = Announcing({Notice(op, p, payment[p].paidBy)})]
    /\ UNCHANGED <<told, lost>>

-------------------------------------------------------------------------------
(* Notifications. *)

\* The call returns with its last notice.
Settle(r, n) ==
    call' = [call EXCEPT ![r] =
              IF Pending(r) = {n} THEN Free ELSE Announcing(Pending(r) \ {n})]

\* The INSERT of one notification.  Bulk marks write theirs in the order of
\* their rows, which Ledger leaves open.
Announce(r) ==
    \E n \in Pending(r) :
      /\ told' = told (+) SetToBag({n})
      /\ Settle(r, n)
      /\ UNCHANGED <<vars, lost>>

\* The INSERT fails, or the request was cancelled: createNotification goes on.
AnnounceFails(r) ==
    \E n \in Pending(r) :
      /\ lost' = lost (+) SetToBag({n})
      /\ Settle(r, n)
      /\ UNCHANGED <<vars, told>>

\* The notices that handlers still have to write, each as often as it is due.
Unwritten ==
    [n \in UNION {Pending(r) : r \in Requests} |-> Cardinality({r \in Requests : n \in Pending(r)})]

\* The process dies and is started again; PostgreSQL rolls back what is open.
Crash ==
    /\ call' = [r \in Requests |-> Free]
    /\ request' = [r \in Requests |-> Idle]
    /\ lost' = lost (+) Unwritten
    /\ UNCHANGED <<debt, payment, told>>

-------------------------------------------------------------------------------
DebtCall(r) ==
    \E op \in {"accept", "reject", "resend"}, user \in Users, d \in Debts :
      Decide(r, op, user, d) \/ DecideNothing(r, op, user, d)

ReviewCall(r) ==
    \E op \in {"payment_confirmed", "payment_rejected"}, user \in Users, p \in DOMAIN payment :
      Review(r, op, user, p)

CallsNext ==
    \/ \E r \in Requests :
         \/ DebtCall(r) \/ LookUp(r) \/ Answer(r)
         \/ Mark(r) \/ MarkDone(r) \/ ReviewCall(r)
         \/ Announce(r) \/ AnnounceFails(r)
    \/ Crash

CallsSpec == CallsInit /\ [][CallsNext]_allVars

-------------------------------------------------------------------------------
(* Properties. *)

Copies(n, bag) == IF BagIn(n, bag) THEN bag[n] ELSE 0

\* How often n has been written, is about to be, or was lost.
Due(n) ==
    Copies(n, told) + Copies(n, lost) + Cardinality({r \in Requests : n \in Pending(r)})

Once(condition) == IF condition THEN 1 ELSE 0

\* The one whom a notice is for, who is not the one who made the change.
Addressee(n) ==
    CASE n.type \in {"debt_accepted", "debt_rejected"} -> Creditor[n.of]
      [] n.type = "debt_resent" -> Debtor[n.of]
      [] n.type = "payment_marked" -> Creditor[payment[n.of].debt]
      [] OTHER -> Debtor[payment[n.of].debt]

\* Every change of the ledger is announced to the other party once, or lost
\* for a failure: the notices that are accounted for tell what the tables say,
\* and nobody else is told anything.
EveryChangeIsAnnounced ==
    /\ \A d \in Debts :
         /\ Due(Notice("debt_accepted", d, Creditor[d]))
              = Once(debt[d].status \notin {"pending", "rejected"})
         /\ Due(Notice("debt_rejected", d, Creditor[d])) - Due(Notice("debt_resent", d, Debtor[d]))
              = Once(debt[d].status = "rejected")
    /\ \A p \in DOMAIN payment :
         /\ Due(Notice("payment_marked", p, Creditor[payment[p].debt])) = 1
         /\ Due(Notice("payment_confirmed", p, Debtor[payment[p].debt]))
              = Once(payment[p].status = "confirmed")
         /\ Due(Notice("payment_rejected", p, Debtor[payment[p].debt]))
              = Once(payment[p].status = "rejected")
    /\ \A n \in BagToSet(told) : n.to = Addressee(n)
===============================================================================
