----------------------------- MODULE Transactions ------------------------------
(***************************************************************************)
(* The transactions of internal/payments, lock by lock.  Ledger lets each  *)
(* of them happen in one or two steps; here they wait for the rows they    *)
(* lock, read each row when its lock is granted, decide on what they have  *)
(* read, and may be rolled back at any moment.  ImplementsLedger says that *)
(* nobody can tell the difference.                                         *)
(*                                                                         *)
(* What follows the last lock (INSERT or UPDATE of locked rows, COMMIT) is *)
(* one action: nobody sees the writes before the commit, and nobody else   *)
(* can write those rows.  The row locks and the detector that breaks a     *)
(* cycle of waiting transactions are PostgreSQL's.                         *)
(***************************************************************************)
EXTENDS Integers, FiniteSets, Sequences, Functions

CONSTANTS
    Users, Debts, Debtor, Creditor, GroupOwner, Payments, MaxAmount,  \* as in Ledger
    Txs,      \* the connections of the pool: each runs one transaction at a time
    Nobody    \* the holder of a row that is not locked

ASSUME TransactionsAssumption ==
    /\ Debtor \in [Debts -> Users]
    /\ Creditor \in [Debts -> Users]
    /\ GroupOwner \in [Debts -> Users]
    /\ \A d \in Debts : Debtor[d] # Creditor[d]
    /\ IsFiniteSet(Debts) /\ IsFiniteSet(Payments) /\ IsFiniteSet(Txs)
    /\ MaxAmount \in Nat
    /\ Debts \cap Payments = {}
    /\ Debts \cap Txs = {}
    /\ Nobody \notin Txs

VARIABLES
    debt,      \* the committed rows of debts, as in Ledger
    payment,   \* the committed rows of payments, as in Ledger
    tx,        \* tx[t]: the transaction that t runs
    holder,    \* holder[x]: the transaction that has locked row x
    older      \* <<x, y>>: x is older than y, a debt by its updated_at and an open
               \* review by its BEGIN, which is what now() returns in it

vars == <<debt, payment, tx, holder, older>>

\* The request of Ledger that t is working on.
MarkingRequest(t) ==
    CASE tx[t].op = "mark" -> tx[t].request
      [] tx[t].op = "bulk" -> [f \in {"kind", "user", "receiver", "amount", "seen"} |->
                                 tx[t].request[f]]
      [] OTHER -> [kind |-> "idle"]

Ledger == INSTANCE Ledger WITH
    Requests <- Txs,
    request <- [t \in Txs |-> MarkingRequest(t)]

Rows == Debts \cup Payments

\* plan: the rows that the locking SELECT locks, in order; locked: how many it
\* has locked so far; saw[x]: row x as it was when its lock was granted; rows:
\* the rows returned so far.
Started(op, request, plan) ==
    [op |-> op, request |-> request, plan |-> plan, locked |-> 0,
     saw |-> [x \in {} |-> 0], rows |-> <<>>]

Closed == Started("none", [kind |-> "idle"], <<>>)

Open(t) == tx[t].op # "none"
Marking(t) == tx[t].op \in {"mark", "bulk"}
AllLocked(t) == tx[t].locked = Len(tx[t].plan)
Wanted(t) == tx[t].plan[tx[t].locked + 1]
Waits(t) == Open(t) /\ ~AllLocked(t)

\* What has a time: the debts and the open reviews.
Dated == Debts \cup {t \in Txs : tx[t].op \in {"confirm", "reject"}}

\* The order of what is left without x.
Forget(x) == {pair \in older : x \notin {pair[1], pair[2]}}

-------------------------------------------------------------------------------
Init ==
    /\ tx = [t \in Txs |-> Closed]
    /\ Ledger!Init
    /\ holder = [x \in Rows |-> Nobody]
    /\ \E rank \in Bijection(Debts, 1..Cardinality(Debts)) :
         older = {pair \in Debts \X Debts : rank[pair[1]] < rank[pair[2]]}

-------------------------------------------------------------------------------
(* BEGIN, and the snapshot of the SELECT ... FOR UPDATE that follows it. *)

\* GetDebtForPaymentMark.
MarkBegin(t, user, d, amount) ==
    /\ ~Open(t)
    /\ tx' = [tx EXCEPT ![t] =
               Started("mark",
                       [kind |-> "mark", user |-> user, debt |-> d, amount |-> amount,
                        pendingSeen |-> Ledger!PendingTotal(d)],
                       <<d>>)]
    /\ UNCHANGED <<debt, payment, holder, older>>

\* Mutant: the query loses its ORDER BY.
LockingOrderAny(seen) == Bijection(1..Cardinality(seen), seen)

\* ListBulkPaymentDebtsForUpdate: ORDER BY updated_at.
LockingOrder(seen) ==
    {s \in Bijection(1..Cardinality(seen), seen) :
       \A i, j \in DOMAIN s : i < j => <<s[i], s[j]>> \in older}

BulkMarkBegin(t, user, receiver, amount) ==
    LET seen == {d \in Debts : /\ Ledger!BulkPayable(d, user, receiver)
                               /\ Ledger!PaymentsOn(d, "pending_confirmation") = {}}
    IN  /\ ~Open(t)
        /\ receiver # user
        /\ \E order \in LockingOrder(seen) :
             tx' = [tx EXCEPT ![t] =
                     Started("bulk",
                             [kind |-> "bulk", user |-> user, receiver |-> receiver,
                              amount |-> amount, seen |-> seen,
                              owed |-> [d \in seen |-> debt[d].remaining]],
                             order)]
        /\ UNCHANGED <<debt, payment, holder, older>>

\* Mutant: a query of its own for rejections locks the debt first.
ReviewPlanByOperation(op, p) ==
    IF op = "reject" THEN <<payment[p].debt, p>> ELSE <<p, payment[p].debt>>

\* FOR UPDATE OF p, d: one query for both operations.
ReviewPlan(op, p) == <<p, payment[p].debt>>

\* GetPaymentWithDebtForUpdate, for op "confirm" and op "reject".
ReviewBegin(t, op, user, p) ==
    /\ ~Open(t)
    /\ tx' = [tx EXCEPT ![t] =
               Started(op,
                       [kind |-> "review", user |-> user, payment |-> p,
                        debt |-> payment[p].debt],
                       ReviewPlan(op, p))]
    /\ older' = older \cup (Dated \X {t})
    /\ UNCHANGED <<debt, payment, holder>>

-------------------------------------------------------------------------------
(* The locks. *)

Row(x) == IF x \in Debts THEN debt[x] ELSE payment[x]

\* Mutant: the rows are read but not locked.
LockedByNoOne(x, t) == UNCHANGED holder

LockedBy(x, t) ==
    /\ holder[x] = Nobody
    /\ holder' = [holder EXCEPT ![x] = t]

\* The condition of ListBulkPaymentDebtsForUpdate is checked again on the row
\* as it is when it is locked, and only if it holds is the row returned.
Returned(t, x) ==
    tx[t].op = "bulk" =>
      Ledger!BulkPayable(x, tx[t].request.user, tx[t].request.receiver)

Locked(row, x) ==
    [y \in DOMAIN row \cup {x} |-> IF y = x THEN Row(x) ELSE row[y]]

\* The next row is locked and read: after a wait, as it is by then.
Lock(t) ==
    LET x == Wanted(t)
    IN  /\ Waits(t)
        /\ LockedBy(x, t)
        /\ tx' = [tx EXCEPT ![t].locked = @ + 1,
                            ![t].saw = Locked(@, x),
                            ![t].rows = IF Returned(t, x) THEN Append(@, x) ELSE @]
        /\ UNCHANGED <<debt, payment, older>>

\* Mutant: an error return forgets to end the transaction in the database.
EndForgotten(t) ==
    /\ tx' = [tx EXCEPT ![t] = Closed]
    /\ UNCHANGED holder

\* COMMIT or ROLLBACK: all locks go.
End(t) ==
    /\ tx' = [tx EXCEPT ![t] = Closed]
    /\ holder' = [x \in Rows |-> IF holder[x] = t THEN Nobody ELSE holder[x]]

-------------------------------------------------------------------------------
(* The checks, on what the transaction has read, and the commits. *)

CanMark(t) ==
    LET req == tx[t].request
        row == tx[t].saw[req.debt]
    IN  /\ req.user = Debtor[req.debt]
        /\ row.status \in Ledger!PayableStatuses
        /\ req.pendingSeen <= 0
        /\ req.amount <= row.remaining - req.pendingSeen

MarkCommit(t) ==
    LET req == tx[t].request
    IN  /\ tx[t].op = "mark" /\ AllLocked(t)
        /\ CanMark(t)
        /\ \E p \in Ledger!FreshIds :
             Ledger!InsertPayments([q \in {p} |->
               [status |-> "pending_confirmation", debt |-> req.debt, paidBy |-> req.user,
                receivedBy |-> Creditor[req.debt], amount |-> req.amount]])
        /\ End(t)
        /\ UNCHANGED <<debt, older>>

\* left[i] is what the loop still has to place after the i-th row.
Allocates(t, left) ==
    /\ left[0] = tx[t].request.amount
    /\ \A i \in DOMAIN tx[t].rows :
         left[i] = left[i - 1] - Ledger!Least(tx[t].saw[tx[t].rows[i]].remaining, left[i - 1])

CanBulkMark(t) ==
    /\ tx[t].rows # <<>>
    /\ tx[t].request.amount
         <= Ledger!Total([d \in Range(tx[t].rows) |-> tx[t].saw[d].remaining])

BulkMarkCommit(t) ==
    LET req == tx[t].request
        n == Len(tx[t].rows)
    IN  /\ tx[t].op = "bulk" /\ AllLocked(t)
        /\ CanBulkMark(t)
        /\ \E left \in [0..n -> 0..req.amount] :
             /\ Allocates(t, left)
             /\ \E ids \in SUBSET Ledger!FreshIds :
                \E at \in Bijection(ids, {i \in 1..n : left[i - 1] # 0}) :
                  Ledger!InsertPayments([p \in ids |->
                    [status |-> "pending_confirmation", debt |-> tx[t].rows[at[p]],
                     paidBy |-> req.user, receivedBy |-> req.receiver,
                     amount |-> left[at[p] - 1] - left[at[p]]]])
        /\ End(t)
        /\ UNCHANGED <<debt, older>>

CanReject(t) ==
    LET req == tx[t].request
        row == tx[t].saw[req.payment]
    IN  req.user = row.receivedBy /\ row.status = "pending_confirmation"

CanConfirm(t) ==
    LET req == tx[t].request
    IN  /\ CanReject(t)
        /\ tx[t].saw[req.debt].status \in Ledger!PayableStatuses
        /\ tx[t].saw[req.payment].amount <= tx[t].saw[req.debt].remaining

\* updated_at of d becomes the time t began.
Touched(d, t) ==
    LET renamed(x) == IF x = t THEN d ELSE x
    IN  {<<renamed(pair[1]), renamed(pair[2])>> : pair \in Forget(d)}

ConfirmCommit(t) ==
    LET p == tx[t].request.payment
        d == tx[t].request.debt
    IN  /\ tx[t].op = "confirm" /\ AllLocked(t)
        /\ CanConfirm(t)
        /\ debt' = [debt EXCEPT ![d] = Ledger!PaidDown(@, tx[t].saw[p].amount)]
        /\ payment' = [payment EXCEPT ![p].status = "confirmed"]
        /\ older' = Touched(d, t)
        /\ End(t)

RejectCommit(t) ==
    /\ tx[t].op = "reject" /\ AllLocked(t)
    /\ CanReject(t)
    /\ payment' = [payment EXCEPT ![tx[t].request.payment].status = "rejected"]
    /\ older' = Forget(t)
    /\ End(t)
    /\ UNCHANGED debt

Admitted(t) ==
    CASE tx[t].op = "mark" -> CanMark(t)
      [] tx[t].op = "bulk" -> CanBulkMark(t)
      [] tx[t].op = "confirm" -> CanConfirm(t)
      [] tx[t].op = "reject" -> CanReject(t)

RollBack(t) ==
    /\ End(t)
    /\ older' = Forget(t)
    /\ UNCHANGED <<debt, payment>>

\* A check fails, or an INSERT does because the instance has no id left.
Refuse(t) ==
    /\ Open(t) /\ AllLocked(t)
    /\ \/ ~Admitted(t)
       \/ Marking(t) /\ Cardinality(Ledger!FreshIds) < Len(tx[t].rows)
    /\ RollBack(t)

\* A statement fails, the request is cancelled, the process or its connection dies.
Cancel(t) == Open(t) /\ RollBack(t)

-------------------------------------------------------------------------------
WaitsFor(t, u) == Waits(t) /\ holder[Wanted(t)] = u /\ u # t

\* The transactions of S wait for each other.  As each waits for one row at a
\* time, S is made of cycles.
Knot(S) ==
    /\ S # {}
    /\ \A t \in S : (\E u \in S : WaitsFor(t, u)) /\ (\E u \in S : WaitsFor(u, t))

\* PostgreSQL's detector ends one transaction of a cycle with an error.
BreakDeadlock(t) ==
    /\ \E S \in SUBSET Txs : t \in S /\ Knot(S)
    /\ RollBack(t)

\* A debt is decided by one UPDATE, which waits for the row and commits at
\* once; it may have begun, and so have taken its now(), at any earlier time.
Decide(d) ==
    /\ holder[d] = Nobody
    /\ UNCHANGED <<tx, holder>>
    /\ \E user \in Users :
         \/ Ledger!AcceptDebt(d, user)
         \/ Ledger!RejectDebt(d, user)
         \/ \E amount \in Ledger!Amounts : Ledger!ReviewRejectedDebt(d, user, amount)
    /\ \E before \in SUBSET (Dated \ {d}) :
         /\ \A pair \in Forget(d) : pair[2] \in before => pair[1] \in before
         /\ older' = Forget(d) \cup (before \X {d}) \cup ({d} \X (Dated \ (before \cup {d})))

-------------------------------------------------------------------------------
Begin(t) ==
    \/ \E user \in Users, d \in Debts, amount \in Ledger!Amounts : MarkBegin(t, user, d, amount)
    \/ \E user, receiver \in Users, amount \in Ledger!Amounts :
         BulkMarkBegin(t, user, receiver, amount)
    \/ \E op \in {"confirm", "reject"}, user \in Users, p \in DOMAIN payment :
         ReviewBegin(t, op, user, p)

Finish(t) ==
    \/ MarkCommit(t)
    \/ BulkMarkCommit(t)
    \/ ConfirmCommit(t)
    \/ RejectCommit(t)
    \/ Refuse(t)

Next ==
    \/ \E t \in Txs : Begin(t) \/ Lock(t) \/ Finish(t) \/ Cancel(t) \/ BreakDeadlock(t)
    \/ \E d \in Debts : Decide(d)

Spec == Init /\ [][Next]_vars

\* Statements are executed, waiting transactions are let in sooner or later
\* (PostgreSQL queues them) and cycles are broken; nobody has to call.
Fairness ==
    \A t \in Txs : /\ WF_vars(Finish(t))
                   /\ SF_vars(Lock(t))
                   /\ WF_vars(BreakDeadlock(t))

FairSpec == Spec /\ Fairness

-------------------------------------------------------------------------------
(* Properties. *)

\* A row is locked by the transactions that have read it and by no other.
TypeOK ==
    /\ holder \in [Rows -> Txs \cup {Nobody}]
    /\ \A t \in Txs :
         /\ tx[t].locked \in 0..Len(tx[t].plan)
         /\ {x \in Rows : holder[x] = t} = {tx[t].plan[i] : i \in 1..tx[t].locked}
         /\ DOMAIN tx[t].saw = {x \in Rows : holder[x] = t}

\* Waiting, snapshots and rollbacks do not show: what the transactions commit
\* is what the ledger allows, each in one step.
ImplementsLedger == Ledger!Spec

\* Reviews lock a payment before its debt and marks lock one row, so only bulk
\* marks can wait for each other in a circle and be ended for it.
OnlyBulkMarksDeadlock ==
    \A S \in SUBSET Txs : Knot(S) => \A t \in S : tx[t].op = "bulk"

\* Bulk marks lock in the order of updated_at, so two that wait for each other
\* saw a debt of both at different times, with a confirmation in between.
DeadlocksNeedAConfirmation ==
    \A t, u \in Txs :
      (WaitsFor(t, u) /\ WaitsFor(u, t)) =>
        \E d \in Range(tx[t].plan) \cap Range(tx[u].plan) : tx[t].request.owed[d] # tx[u].request.owed[d]

\* No transaction stays open, whatever the others hold and wait for.
EveryTransactionEnds == \A t \in Txs : Open(t) ~> ~Open(t)
===============================================================================
