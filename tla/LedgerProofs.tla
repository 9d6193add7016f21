---------------------------- MODULE LedgerProofs -----------------------------
(***************************************************************************)
(* Theorems about Ledger, for any debts, users, amounts and requests.      *)
(***************************************************************************)
EXTENDS Ledger, FiniteSetTheorems, FunctionTheorems, WellFoundedInduction, TLAPS

-------------------------------------------------------------------------------
(* Sums of money. *)

\* A sum over finitely many amounts is a natural number.
LEMMA TotalIsNat ==
  ASSUME NEW f, IsFiniteSet(DOMAIN f)
  PROVE  /\ IsFiniteSet(Units(f))
         /\ Total(f) \in Nat
<1>1. IsFiniteSet(Amounts)
  BY LedgerAssumption, FS_Interval DEF Amounts
<1>2. IsFiniteSet((DOMAIN f) \X Amounts)
  BY <1>1, FS_Product
<1>3. Units(f) \in SUBSET ((DOMAIN f) \X Amounts)
  BY DEF Units
<1>4. IsFiniteSet(Units(f))
  BY <1>2, <1>3, FS_Subset
<1> QED
  BY <1>4, FS_CardinalityType DEF Total

\* The sum over nothing is zero.
LEMMA TotalOfNothing ==
  ASSUME NEW f, DOMAIN f = {}
  PROVE  Total(f) = 0
<1>1. Units(f) = {}
  BY DEF Units
<1> QED
  BY <1>1, FS_EmptySet DEF Total

\* The units of a single amount are as many as the amount.
LEMMA UnitsOfOne ==
  ASSUME NEW x, NEW n \in 0..MaxAmount
  PROVE  /\ IsFiniteSet({x} \X (1..n))
         /\ Cardinality({x} \X (1..n)) = n
<1>1. IsFiniteSet({x}) /\ Cardinality({x}) = 1
  BY FS_Singleton
<1>2. IsFiniteSet(1..n) /\ Cardinality(1..n) = n
  BY LedgerAssumption, FS_Interval
<1>3. Cardinality({x} \X (1..n)) = 1 * n
  BY <1>1, <1>2, FS_Product
<1> QED
  BY <1>1, <1>2, <1>3, FS_Product

\* One more amount adds just that amount.
LEMMA TotalAddsOne ==
  ASSUME NEW f, NEW g, NEW x, IsFiniteSet(DOMAIN f),
         x \notin DOMAIN f, DOMAIN g = DOMAIN f \cup {x},
         \A y \in DOMAIN f : g[y] = f[y],
         g[x] \in 0..MaxAmount
  PROVE  Total(g) = Total(f) + g[x]
<1> DEFINE slice == {x} \X (1..g[x])
<1>1. Units(g) = Units(f) \cup slice
  <2>1. 1..g[x] = {k \in Amounts : k <= g[x]}
    BY LedgerAssumption DEF Amounts
  <2>2. Units(g) = Units(f) \cup {u \in {x} \X Amounts : u[2] <= g[x]}
    BY DEF Units
  <2>3. {u \in {x} \X Amounts : u[2] <= g[x]} = slice
    BY <2>1
  <2> QED
    BY <2>2, <2>3
<1>2. Units(f) \cap slice = {}
  BY DEF Units
<1>3. IsFiniteSet(Units(f)) /\ Total(f) \in Nat
  BY TotalIsNat
<1>4. IsFiniteSet(slice) /\ Cardinality(slice) = g[x]
  BY UnitsOfOne
<1>5. Cardinality(Units(f) \cup slice) = Cardinality(Units(f)) + Cardinality(slice) - Cardinality({})
  BY <1>2, <1>3, <1>4, FS_Union
<1>6. Cardinality({}) = 0
  BY FS_EmptySet
<1> HIDE DEF slice
<1> QED
  BY <1>1, <1>3, <1>4, <1>5, <1>6, LedgerAssumption DEF Total

-------------------------------------------------------------------------------
(* What the operations do to the payments table. *)

\* A mark or a bulk mark adds fresh pending payments, each of them from the
\* debtor to the creditor of a payable debt and within what is left of it.
Inserted(rows) ==
    /\ DOMAIN rows \subseteq FreshIds
    /\ \A p \in DOMAIN rows :
         /\ rows[p] \in PaymentRow
         /\ rows[p].status = "pending_confirmation"
         /\ rows[p].paidBy = Debtor[rows[p].debt]
         /\ rows[p].receivedBy = Creditor[rows[p].debt]
         /\ rows[p].amount <= debt[rows[p].debt].remaining
         /\ debt[rows[p].debt].status \in PayableStatuses
    /\ InsertPayments(rows)

\* A Mark that commits inserts one such row.
LEMMA MarkInserts ==
  ASSUME TypeOK, NEW r \in Requests, MarkCommit(r)
  PROVE  \E rows : Inserted(rows)
<1> DEFINE req == request[r]
<1>1. req \in MarkRequest
  BY DEF TypeOK, MarkCommit, Idle, MarkRequest, BulkRequest
<1>2. PICK p \in FreshIds :
        InsertPayments([q \in {p} |->
          [status |-> "pending_confirmation", debt |-> req.debt, paidBy |-> req.user,
           receivedBy |-> Creditor[req.debt], amount |-> req.amount]])
  BY DEF MarkCommit
<1> DEFINE row == [status |-> "pending_confirmation", debt |-> req.debt, paidBy |-> req.user,
                   receivedBy |-> Creditor[req.debt], amount |-> req.amount]
<1>3. CanMark(req)
  BY DEF MarkCommit
<1>4. row \in PaymentRow
  BY <1>1, LedgerAssumption DEF MarkRequest, PaymentRow, PaymentStatuses
<1>5. row.amount <= debt[row.debt].remaining
  BY <1>1, <1>3, LedgerAssumption
  DEF CanMark, MarkRequest, TypeOK, DebtRow, Amounts
<1>6. Inserted([q \in {p} |-> row])
  BY <1>1, <1>2, <1>3, <1>4, <1>5 DEF Inserted, CanMark
<1> QED
  BY <1>6

\* One iteration of the bulk loop places no more than the debt can take.
LEMMA LeastPlaced ==
  ASSUME NEW a \in Nat, NEW b \in Nat, NEW c, c = b - Least(a, b), c # b
  PROVE  /\ b - c \in Nat \ {0}
         /\ b - c <= a
BY DEF Least

\* A BulkMark that commits inserts one such row for each debt it reaches.
LEMMA BulkMarkInserts ==
  ASSUME TypeOK, NEW r \in Requests, BulkMarkCommit(r)
  PROVE  \E rows : Inserted(rows)
<1> DEFINE req == request[r]
           n == Cardinality(Locked(req))
<1>1. req \in BulkRequest
  BY DEF TypeOK, BulkMarkCommit, Idle, MarkRequest, BulkRequest
<1>2. PICK order \in Bijection(1..n, Locked(req)), left \in [0..n -> 0..req.amount] :
        /\ Allocates(left, order, req.amount)
        /\ \E ids \in SUBSET FreshIds :
           \E at \in Bijection(ids, {i \in 1..n : left[i - 1] # 0}) :
             InsertPayments([p \in ids |->
               [status |-> "pending_confirmation", debt |-> order[at[p]],
                paidBy |-> req.user, receivedBy |-> req.receiver,
                amount |-> left[at[p] - 1] - left[at[p]]]])
  BY DEF BulkMarkCommit
<1>3. PICK ids \in SUBSET FreshIds :
        \E at \in Bijection(ids, {i \in 1..n : left[i - 1] # 0}) :
          InsertPayments([p \in ids |->
            [status |-> "pending_confirmation", debt |-> order[at[p]],
             paidBy |-> req.user, receivedBy |-> req.receiver,
             amount |-> left[at[p] - 1] - left[at[p]]]])
  BY <1>2
<1>4. PICK at \in Bijection(ids, {i \in 1..n : left[i - 1] # 0}) :
        InsertPayments([p \in ids |->
          [status |-> "pending_confirmation", debt |-> order[at[p]],
           paidBy |-> req.user, receivedBy |-> req.receiver,
           amount |-> left[at[p] - 1] - left[at[p]]]])
  BY <1>3
<1> DEFINE rows == [p \in ids |->
                     [status |-> "pending_confirmation", debt |-> order[at[p]],
                      paidBy |-> req.user, receivedBy |-> req.receiver,
                      amount |-> left[at[p] - 1] - left[at[p]]]]
<1>5. /\ order \in [1..n -> Locked(req)]
      /\ at \in [ids -> {i \in 1..n : left[i - 1] # 0}]
  BY DEF Bijection, Injection, Surjection
<1>6. n \in Nat
  <2>1. Locked(req) \in SUBSET Debts
    BY <1>1 DEF Locked, BulkRequest
  <2> QED
    BY <2>1, LedgerAssumption, FS_Subset, FS_CardinalityType
<1>7. ASSUME NEW p \in ids
      PROVE  /\ rows[p] \in PaymentRow
             /\ rows[p].status = "pending_confirmation"
             /\ rows[p].paidBy = Debtor[rows[p].debt]
             /\ rows[p].receivedBy = Creditor[rows[p].debt]
             /\ rows[p].amount <= debt[rows[p].debt].remaining
             /\ debt[rows[p].debt].status \in PayableStatuses
  <2> DEFINE i == at[p]
             d == order[i]
  <2>1. i \in 1..n /\ left[i - 1] # 0
    BY <1>5
  <2>2. /\ d \in Debts
        /\ BulkPayable(d, req.user, req.receiver)
    BY <1>1, <1>5, <2>1 DEF Locked, BulkRequest
  <2>3. /\ debt[d].remaining \in 1..MaxAmount
        /\ debt[d].status \in PayableStatuses
        /\ Debtor[d] = req.user
        /\ Creditor[d] = req.receiver
    BY <2>2, LedgerAssumption DEF BulkPayable, TypeOK, DebtRow
  <2>4. /\ left[i - 1] \in Nat
        /\ left[i] \in 0..req.amount
    BY <1>1, <1>6, <2>1, LedgerAssumption DEF BulkRequest, Amounts
  <2>5. left[i] = left[i - 1] - Least(debt[d].remaining, left[i - 1])
    BY <1>2, <1>5, <2>1 DEF Allocates
  <2>6. left[i] # left[i - 1]
    BY <2>1, <2>3, <2>4, <2>5, LedgerAssumption DEF Least
  <2> HIDE DEF i, d
  <2>7. /\ left[i - 1] - left[i] \in Nat \ {0}
        /\ left[i - 1] - left[i] <= debt[d].remaining
    BY <2>3, <2>4, <2>5, <2>6, LeastPlaced, LedgerAssumption
  <2>8. left[i - 1] - left[i] \in Amounts
    BY <2>3, <2>7, LedgerAssumption DEF Amounts
  <2>9. rows[p] = [status |-> "pending_confirmation", debt |-> d,
                   paidBy |-> req.user, receivedBy |-> req.receiver,
                   amount |-> left[i - 1] - left[i]]
    BY DEF i, d
  <2> HIDE DEF rows
  <2> QED
    BY <1>1, <2>2, <2>3, <2>7, <2>8, <2>9 DEF PaymentRow, PaymentStatuses, BulkRequest
<1>8. DOMAIN rows = ids
  OBVIOUS
<1>9. InsertPayments(rows)
  BY <1>4
<1> HIDE DEF rows
<1>10. Inserted(rows)
  BY <1>7, <1>8, <1>9 DEF Inserted
<1> QED
  BY <1>10

-------------------------------------------------------------------------------
(* The inductive invariant.  None of its parts is inductive alone: a debt     *)
(* sent back to its debtor keeps the sum because it carries no payment, and   *)
(* a payment fits its debt because what is left never exceeds the original.   *)

Inv ==
    /\ TypeOK
    /\ MoneyConserved
    /\ StatusTellsRemaining
    /\ PaymentsNeedAcceptance
    /\ PaymentFitsDebt

\* The sums of the model are over finitely many payments.
LEMMA ConfirmedIsNat ==
  ASSUME TypeOK, NEW d
  PROVE  /\ IsFiniteSet(PaymentsOn(d, "confirmed"))
         /\ ConfirmedTotal(d) \in Nat
<1>1. IsFiniteSet(PaymentsOn(d, "confirmed"))
  BY LedgerAssumption, FS_Subset DEF TypeOK, PaymentsOn
<1> QED
  BY <1>1, TotalIsNat DEF ConfirmedTotal, AmountsOf

\* A debt with no payment is unpaid.
LEMMA NothingConfirmed ==
  ASSUME NEW d, \A p \in DOMAIN payment : payment[p].debt # d
  PROVE  ConfirmedTotal(d) = 0
<1>1. PaymentsOn(d, "confirmed") = {}
  BY DEF PaymentsOn
<1> QED
  BY <1>1, TotalOfNothing DEF ConfirmedTotal, AmountsOf

\* What is left of a debt is part of its original amount, all of it while the
\* debtor has not accepted.
LEMMA RemainingWithinOriginal ==
  ASSUME Inv, NEW d \in Debts
  PROVE  /\ debt[d].remaining <= debt[d].original
         /\ debt[d].status \in {"pending", "rejected"} =>
              /\ ConfirmedTotal(d) = 0
              /\ debt[d].remaining = debt[d].original
<1>1. /\ debt[d].remaining + ConfirmedTotal(d) = debt[d].original
      /\ ConfirmedTotal(d) \in Nat
  BY ConfirmedIsNat DEF Inv, MoneyConserved
<1>2. debt[d].remaining \in Nat /\ debt[d].original \in Nat
  BY LedgerAssumption DEF Inv, TypeOK, DebtRow, Amounts
<1>3. ASSUME debt[d].status \in {"pending", "rejected"}
      PROVE  ConfirmedTotal(d) = 0
  BY <1>3, NothingConfirmed DEF Inv, PaymentsNeedAcceptance
<1> QED
  BY <1>1, <1>2, <1>3

\* The sum of the confirmed payments depends on nothing but those payments.
LEMMA ConfirmedFrame ==
  ASSUME NEW d, PaymentsOn(d, "confirmed")' = PaymentsOn(d, "confirmed"),
         \A p \in PaymentsOn(d, "confirmed") : payment'[p].amount = payment[p].amount
  PROVE  ConfirmedTotal(d)' = ConfirmedTotal(d)
<1>1. AmountsOf(PaymentsOn(d, "confirmed"))' = AmountsOf(PaymentsOn(d, "confirmed"))
  BY DEF AmountsOf
<1> QED
  BY <1>1 DEF ConfirmedTotal, Total, Units

-------------------------------------------------------------------------------
(* Each operation preserves the invariant. *)

\* The invariant holds when no payment has been made.
LEMMA InitInv == Init => Inv
<1> SUFFICES ASSUME Init PROVE Inv
  OBVIOUS
<1>1. PICK share \in [Debts -> Amounts] :
        debt = [d \in Debts |-> [status |-> "pending", original |-> share[d],
                                 remaining |-> share[d]]]
  BY DEF Init
<1>2. TypeOK
  BY <1>1, LedgerAssumption DEF Init, TypeOK, DebtRow, DebtStatuses, Amounts
<1>3. \A d \in Debts : ConfirmedTotal(d) = 0
  BY NothingConfirmed DEF Init
<1>4. MoneyConserved
  BY <1>1, <1>3, LedgerAssumption DEF MoneyConserved, Amounts
<1>5. StatusTellsRemaining
  BY <1>1, LedgerAssumption DEF StatusTellsRemaining, Amounts
<1>6. PaymentsNeedAcceptance /\ PaymentFitsDebt
  BY DEF Init, PaymentsNeedAcceptance, PaymentFitsDebt
<1> QED
  BY <1>2, <1>4, <1>5, <1>6 DEF Inv

\* The debtor's decision changes a status and no amount.
LEMMA DecideInv ==
  ASSUME Inv, NEW d \in Debts, NEW user \in Users,
         AcceptDebt(d, user) \/ RejectDebt(d, user)
  PROVE  Inv'
<1>1. /\ debt[d].status = "pending"
      /\ UNCHANGED <<payment, request>>
  BY DEF AcceptDebt, RejectDebt
<1>2. PICK s \in {"accepted", "rejected"} : debt' = [debt EXCEPT ![d].status = s]
  BY DEF AcceptDebt, RejectDebt
<1>3. TypeOK'
  BY <1>1, <1>2 DEF Inv, TypeOK, DebtRow, DebtStatuses
<1>4. \A e \in Debts :
        /\ debt'[e].remaining = debt[e].remaining
        /\ debt'[e].original = debt[e].original
        /\ e # d => debt'[e].status = debt[e].status
  BY <1>2 DEF Inv, TypeOK, DebtRow
<1>5. \A e \in Debts : ConfirmedTotal(e)' = ConfirmedTotal(e)
  BY <1>1 DEF ConfirmedTotal, Total, Units, AmountsOf, PaymentsOn
<1>6. MoneyConserved'
  BY <1>4, <1>5 DEF Inv, MoneyConserved
<1>7. debt'[d].status = s
  BY <1>2 DEF Inv, TypeOK, DebtRow
<1>8. StatusTellsRemaining'
  BY <1>1, <1>4, <1>7 DEF Inv, StatusTellsRemaining
<1>9. \A p \in DOMAIN payment : payment[p].debt \in Debts /\ payment[p].debt # d
  BY <1>1 DEF Inv, TypeOK, PaymentRow, PaymentsNeedAcceptance
<1>10. PaymentsNeedAcceptance'
  BY <1>1, <1>4, <1>9 DEF Inv, PaymentsNeedAcceptance
<1>11. PaymentFitsDebt'
  BY <1>1, <1>4, <1>9 DEF Inv, PaymentFitsDebt
<1> QED
  BY <1>3, <1>6, <1>8, <1>10, <1>11 DEF Inv

\* A debt that is sent back has no payment, so its amount can be replaced.
LEMMA ReviewInv ==
  ASSUME Inv, NEW d \in Debts, NEW user \in Users, NEW amount \in Amounts,
         ReviewRejectedDebt(d, user, amount)
  PROVE  Inv'
<1>1. /\ debt[d].status = "rejected"
      /\ UNCHANGED <<payment, request>>
      /\ debt' = [debt EXCEPT ![d] = [status |-> "pending", original |-> amount,
                                      remaining |-> amount]]
  BY DEF ReviewRejectedDebt
<1>2. TypeOK'
  BY <1>1, LedgerAssumption DEF Inv, TypeOK, DebtRow, DebtStatuses, Amounts
<1>3. /\ debt'[d] = [status |-> "pending", original |-> amount, remaining |-> amount]
      /\ \A e \in Debts \ {d} : debt'[e] = debt[e]
  BY <1>1 DEF Inv, TypeOK
<1>4. \A e \in Debts : ConfirmedTotal(e)' = ConfirmedTotal(e)
  BY <1>1 DEF ConfirmedTotal, Total, Units, AmountsOf, PaymentsOn
<1>5. ConfirmedTotal(d) = 0
  BY <1>1, RemainingWithinOriginal
<1>6. amount \in Nat \ {0}
  BY LedgerAssumption DEF Amounts
<1>7. MoneyConserved'
  BY <1>3, <1>4, <1>5, <1>6 DEF Inv, MoneyConserved
<1>8. StatusTellsRemaining'
  BY <1>3, <1>6 DEF Inv, StatusTellsRemaining
<1>9. \A p \in DOMAIN payment : payment[p].debt \in Debts \ {d}
  BY <1>1 DEF Inv, TypeOK, PaymentRow, PaymentsNeedAcceptance
<1>10. PaymentsNeedAcceptance' /\ PaymentFitsDebt'
  BY <1>1, <1>3, <1>9 DEF Inv, PaymentsNeedAcceptance, PaymentFitsDebt
<1> QED
  BY <1>2, <1>7, <1>8, <1>10 DEF Inv

\* New pending payments count in no sum of confirmed ones.
LEMMA InsertInv ==
  ASSUME Inv, NEW rows, Inserted(rows), UNCHANGED debt,
         request' \in [Requests -> {Idle} \cup MarkRequest \cup BulkRequest]
  PROVE  Inv'
<1>1. /\ DOMAIN payment' = DOMAIN payment \cup DOMAIN rows
      /\ \A p \in DOMAIN rows : p \notin DOMAIN payment /\ payment'[p] = rows[p]
      /\ \A p \in DOMAIN payment : payment'[p] = payment[p]
  BY DEF Inserted, InsertPayments, FreshIds
<1>2. TypeOK'
  <2>1. DOMAIN payment' \subseteq Payments
    BY <1>1 DEF Inv, TypeOK, Inserted, FreshIds
  <2>2. payment' \in [DOMAIN payment' -> PaymentRow]
    BY <1>1 DEF Inv, TypeOK, Inserted, InsertPayments
  <2> QED
    BY <2>1, <2>2 DEF Inv, TypeOK
<1>3. ASSUME NEW d \in Debts
      PROVE  ConfirmedTotal(d)' = ConfirmedTotal(d)
  <2>1. PaymentsOn(d, "confirmed")' = PaymentsOn(d, "confirmed")
    BY <1>1 DEF PaymentsOn, Inserted
  <2> QED
    BY <1>1, <2>1, ConfirmedFrame DEF PaymentsOn
<1>4. MoneyConserved' /\ StatusTellsRemaining'
  BY <1>3 DEF Inv, MoneyConserved, StatusTellsRemaining
<1>5. PaymentsNeedAcceptance'
  BY <1>1 DEF Inv, PaymentsNeedAcceptance, Inserted, PayableStatuses
<1>6. ASSUME NEW p \in DOMAIN rows
      PROVE  rows[p].amount <= debt[rows[p].debt].original
  <2>1. /\ rows[p].debt \in Debts
        /\ rows[p].amount \in Nat
        /\ rows[p].amount <= debt[rows[p].debt].remaining
    BY LedgerAssumption DEF Inserted, PaymentRow, Amounts
  <2>2. /\ debt[rows[p].debt].remaining \in Nat
        /\ debt[rows[p].debt].original \in Nat
    BY <2>1, LedgerAssumption DEF Inv, TypeOK, DebtRow, Amounts
  <2> QED
    BY <2>1, <2>2, RemainingWithinOriginal
<1>7. PaymentFitsDebt'
  BY <1>1, <1>6 DEF Inv, PaymentFitsDebt, Inserted
<1> QED
  BY <1>2, <1>4, <1>5, <1>7 DEF Inv

\* The start of a marking statement and a rollback change no row.
LEMMA RequestInv ==
  ASSUME Inv, UNCHANGED <<debt, payment>>,
         request' \in [Requests -> {Idle} \cup MarkRequest \cup BulkRequest]
  PROVE  Inv'
<1>1. TypeOK'
  BY DEF Inv, TypeOK
<1>2. \A d : ConfirmedTotal(d)' = ConfirmedTotal(d)
  BY DEF ConfirmedTotal, Total, Units, AmountsOf, PaymentsOn
<1> QED
  BY <1>1, <1>2
  DEF Inv, MoneyConserved, StatusTellsRemaining, PaymentsNeedAcceptance, PaymentFitsDebt

\* A confirmation moves the payment's amount from what is left of its debt to
\* the sum of the confirmed payments, and leaves every other debt alone.
LEMMA ConfirmMovesAmount ==
  ASSUME Inv, NEW p \in DOMAIN payment, NEW user \in Users, ConfirmPayment(p, user),
         NEW d, d = payment[p].debt
  PROVE  /\ d \in Debts
         /\ payment[p].amount \in 1..debt[d].remaining
         /\ debt' = [debt EXCEPT ![d] = PaidDown(@, payment[p].amount)]
         /\ ConfirmedTotal(d)' = ConfirmedTotal(d) + payment[p].amount
         /\ \A e \in Debts \ {d} : ConfirmedTotal(e)' = ConfirmedTotal(e)
<1> DEFINE row == [payment[p] EXCEPT !.status = "confirmed"]
<1>1. /\ d \in Debts
      /\ payment[p] \in PaymentRow
      /\ payment[p].status = "pending_confirmation"
      /\ payment[p].amount <= debt[d].remaining
      /\ debt' = [debt EXCEPT ![d] = PaidDown(@, payment[p].amount)]
      /\ payment' = [payment EXCEPT ![p] = row]
  BY DEF Inv, TypeOK, PaymentRow, ConfirmPayment
<1>2. payment[p].amount \in Amounts
  BY <1>1 DEF PaymentRow
<1>3. payment[p].amount \in 1..debt[d].remaining
  BY <1>1, <1>2, LedgerAssumption DEF Inv, TypeOK, DebtRow, Amounts
<1>4. /\ DOMAIN payment' = DOMAIN payment
      /\ payment'[p] = row
      /\ \A q \in DOMAIN payment \ {p} : payment'[q] = payment[q]
  BY <1>1 DEF Inv, TypeOK
<1>5. row.debt = d /\ row.status = "confirmed" /\ row.amount = payment[p].amount
  BY <1>1 DEF PaymentRow
<1>6. PaymentsOn(d, "confirmed")' = PaymentsOn(d, "confirmed") \cup {p}
  BY <1>1, <1>4, <1>5 DEF PaymentsOn
<1>7. ConfirmedTotal(d)' = ConfirmedTotal(d) + payment[p].amount
  <2> DEFINE f == AmountsOf(PaymentsOn(d, "confirmed"))
             g == [q \in PaymentsOn(d, "confirmed") \cup {p} |-> payment'[q].amount]
  <2>1. ConfirmedTotal(d)' = Total(g)
    BY <1>6 DEF ConfirmedTotal, AmountsOf, Total, Units
  <2>2. ConfirmedTotal(d) = Total(f)
    BY DEF ConfirmedTotal
  <2>3. /\ DOMAIN f = PaymentsOn(d, "confirmed")
        /\ DOMAIN g = DOMAIN f \cup {p}
        /\ p \notin DOMAIN f
        /\ IsFiniteSet(DOMAIN f)
    BY <1>1, ConfirmedIsNat DEF AmountsOf, PaymentsOn, Inv
  <2>4. \A q \in DOMAIN f : g[q] = f[q]
    BY <1>4, <2>3 DEF AmountsOf, PaymentsOn
  <2>5. g[p] = payment[p].amount
    BY <1>4, <1>5
  <2>6. payment[p].amount \in 0..MaxAmount
    BY <1>2, LedgerAssumption DEF Amounts
  <2> HIDE DEF f, g
  <2>7. Total(g) = Total(f) + g[p]
    BY <2>3, <2>4, <2>5, <2>6, TotalAddsOne
  <2> QED
    BY <2>1, <2>2, <2>5, <2>7
<1>8. ASSUME NEW e \in Debts \ {d}
      PROVE  ConfirmedTotal(e)' = ConfirmedTotal(e)
  <2>1. PaymentsOn(e, "confirmed")' = PaymentsOn(e, "confirmed")
    BY <1>4, <1>5 DEF PaymentsOn
  <2>2. \A q \in PaymentsOn(e, "confirmed") : payment'[q].amount = payment[q].amount
    BY <1>4 DEF PaymentsOn
  <2> QED
    BY <2>1, <2>2, ConfirmedFrame
<1> QED
  BY <1>1, <1>3, <1>7, <1>8

\* A confirmation keeps the sum and sets the status that goes with it.
LEMMA ConfirmInv ==
  ASSUME Inv, NEW p \in DOMAIN payment, NEW user \in Users, ConfirmPayment(p, user)
  PROVE  Inv'
<1> PICK d : d = payment[p].debt
  OBVIOUS
<1> PICK amount : amount = payment[p].amount
  OBVIOUS
<1>1. /\ d \in Debts
      /\ amount \in 1..debt[d].remaining
      /\ debt' = [debt EXCEPT ![d] = PaidDown(@, amount)]
      /\ ConfirmedTotal(d)' = ConfirmedTotal(d) + amount
      /\ \A e \in Debts \ {d} : ConfirmedTotal(e)' = ConfirmedTotal(e)
  BY ConfirmMovesAmount
<1>2. /\ debt[d] \in DebtRow
      /\ debt[d].status \in PayableStatuses
      /\ UNCHANGED request
      /\ payment' = [payment EXCEPT ![p].status = "confirmed"]
  BY <1>1 DEF Inv, TypeOK, ConfirmPayment
<1>3. /\ debt'[d].remaining = debt[d].remaining - amount
      /\ debt'[d].original = debt[d].original
      /\ debt'[d].status = IF debt[d].remaining - amount = 0
                           THEN "settled" ELSE "partially_settled"
      /\ \A e \in Debts \ {d} : debt'[e] = debt[e]
  BY <1>1, <1>2 DEF Inv, TypeOK, DebtRow, PaidDown
<1>4. /\ debt[d].remaining \in 0..MaxAmount
      /\ debt[d].original \in Nat
      /\ amount \in Nat \ {0}
      /\ ConfirmedTotal(d) \in Nat
  BY <1>1, <1>2, ConfirmedIsNat, LedgerAssumption DEF DebtRow, Amounts, Inv
<1>5. TypeOK'
  <2>1. PaidDown(debt[d], amount) \in DebtRow
    <3>1. debt[d].remaining - amount \in 0..MaxAmount
      BY <1>1, <1>4, LedgerAssumption
    <3> QED
      BY <1>2, <3>1 DEF PaidDown, DebtRow, DebtStatuses
  <2>2. debt' \in [Debts -> DebtRow]
    BY <1>1, <2>1 DEF Inv, TypeOK
  <2>3. DOMAIN payment' \subseteq Payments /\ payment' \in [DOMAIN payment' -> PaymentRow]
    BY <1>2 DEF Inv, TypeOK, PaymentRow, PaymentStatuses
  <2> QED
    BY <1>2, <2>2, <2>3 DEF Inv, TypeOK
<1>6. MoneyConserved'
  <2>1. debt[d].remaining + ConfirmedTotal(d) = debt[d].original
    BY <1>1 DEF Inv, MoneyConserved
  <2>2. debt'[d].remaining + ConfirmedTotal(d)' = debt'[d].original
    BY <1>1, <1>3, <1>4, <2>1
  <2>3. \A e \in Debts \ {d} : debt'[e].remaining + ConfirmedTotal(e)' = debt'[e].original
    BY <1>1, <1>3 DEF Inv, MoneyConserved
  <2> QED
    BY <2>2, <2>3 DEF MoneyConserved
<1>7. StatusTellsRemaining'
  <2>1. debt[d].remaining <= debt[d].original
    BY <1>1, RemainingWithinOriginal
  <2>2. /\ debt'[d].status = "settled" <=> debt'[d].remaining = 0
        /\ debt'[d].status = "partially_settled"
             <=> debt'[d].remaining \in 1..(debt'[d].original - 1)
    BY <1>1, <1>3, <1>4, <2>1
  <2> QED
    BY <1>3, <2>2 DEF Inv, StatusTellsRemaining
<1>8. /\ DOMAIN payment' = DOMAIN payment
      /\ \A q \in DOMAIN payment :
           /\ payment'[q].debt = payment[q].debt
           /\ payment'[q].paidBy = payment[q].paidBy
           /\ payment'[q].receivedBy = payment[q].receivedBy
           /\ payment'[q].amount = payment[q].amount
           /\ payment[q].debt \in Debts
  BY <1>2 DEF Inv, TypeOK, PaymentRow
<1>9. PaymentsNeedAcceptance'
  BY <1>3, <1>8 DEF Inv, PaymentsNeedAcceptance
<1>10. PaymentFitsDebt'
  BY <1>3, <1>8 DEF Inv, PaymentFitsDebt
<1> QED
  BY <1>5, <1>6, <1>7, <1>9, <1>10 DEF Inv

\* A rejected payment was not confirmed before and is not now.
LEMMA RejectPaymentInv ==
  ASSUME Inv, NEW p \in DOMAIN payment, NEW user \in Users, RejectPayment(p, user)
  PROVE  Inv'
<1>1. /\ payment[p].status = "pending_confirmation"
      /\ payment' = [payment EXCEPT ![p].status = "rejected"]
      /\ UNCHANGED <<debt, request>>
  BY DEF RejectPayment
<1>2. TypeOK'
  BY <1>1 DEF Inv, TypeOK, PaymentRow, PaymentStatuses
<1>3. /\ DOMAIN payment' = DOMAIN payment
      /\ \A q \in DOMAIN payment \ {p} : payment'[q] = payment[q]
      /\ payment'[p].status = "rejected"
      /\ \A q \in DOMAIN payment :
           /\ payment'[q].debt = payment[q].debt
           /\ payment'[q].paidBy = payment[q].paidBy
           /\ payment'[q].receivedBy = payment[q].receivedBy
           /\ payment'[q].amount = payment[q].amount
  BY <1>1 DEF Inv, TypeOK, PaymentRow
<1>4. ASSUME NEW d \in Debts
      PROVE  ConfirmedTotal(d)' = ConfirmedTotal(d)
  <2>1. PaymentsOn(d, "confirmed")' = PaymentsOn(d, "confirmed")
    BY <1>1, <1>3 DEF PaymentsOn
  <2> QED
    BY <1>3, <2>1, ConfirmedFrame DEF PaymentsOn
<1>5. MoneyConserved' /\ StatusTellsRemaining'
  BY <1>1, <1>4 DEF Inv, MoneyConserved, StatusTellsRemaining
<1>6. PaymentsNeedAcceptance' /\ PaymentFitsDebt'
  BY <1>1, <1>3 DEF Inv, PaymentsNeedAcceptance, PaymentFitsDebt
<1> QED
  BY <1>2, <1>5, <1>6 DEF Inv

\* Every step preserves the invariant.
LEMMA NextInv == Inv /\ [Next]_vars => Inv'
<1> SUFFICES ASSUME Inv, [Next]_vars PROVE Inv'
  OBVIOUS
<1> USE DEF Next, DebtStep, MarkStep, ReviewStep
<1>1. CASE DebtStep
  <2>1. PICK d \in Debts, user \in Users :
          \/ AcceptDebt(d, user) \/ RejectDebt(d, user)
          \/ \E amount \in Amounts : ReviewRejectedDebt(d, user, amount)
    BY <1>1
  <2> QED
    BY <2>1, DecideInv, ReviewInv
<1>2. CASE MarkStep
  <2>1. PICK r \in Requests :
          \/ \E user \in Users, d \in Debts, amount \in Amounts : MarkBegin(r, user, d, amount)
          \/ MarkCommit(r)
          \/ \E user, receiver \in Users, amount \in Amounts :
               BulkMarkBegin(r, user, receiver, amount)
          \/ BulkMarkCommit(r)
          \/ RollBack(r)
    BY <1>2
  <2> DEFINE Shape == {Idle} \cup MarkRequest \cup BulkRequest
  <2>2. \A d : PendingTotal(d) \in Nat
    <3>1. \A d : IsFiniteSet(PaymentsOn(d, "pending_confirmation"))
      BY LedgerAssumption, FS_Subset DEF Inv, TypeOK, PaymentsOn
    <3> QED
      BY <3>1, TotalIsNat DEF PendingTotal, AmountsOf
  <2>3. ASSUME NEW user \in Users, NEW d \in Debts, NEW amount \in Amounts,
               MarkBegin(r, user, d, amount)
        PROVE  Inv'
    <3>1. request' \in [Requests -> Shape]
      BY <2>2, <2>3 DEF MarkBegin, Inv, TypeOK, MarkRequest
    <3> QED
      BY <2>3, <3>1, RequestInv DEF MarkBegin
  <2>4. ASSUME NEW user \in Users, NEW receiver \in Users, NEW amount \in Amounts,
               BulkMarkBegin(r, user, receiver, amount)
        PROVE  Inv'
    <3>1. request' \in [Requests -> Shape]
      BY <2>4 DEF BulkMarkBegin, Inv, TypeOK, BulkRequest
    <3> QED
      BY <2>4, <3>1, RequestInv DEF BulkMarkBegin
  <2>5. CASE RollBack(r)
    <3>1. request' \in [Requests -> Shape]
      BY <2>5 DEF RollBack, Inv, TypeOK
    <3> QED
      BY <2>5, <3>1, RequestInv DEF RollBack
  <2>6. CASE MarkCommit(r) \/ BulkMarkCommit(r)
    <3>1. UNCHANGED debt /\ request' = [request EXCEPT ![r] = Idle]
      BY <2>6 DEF MarkCommit, BulkMarkCommit
    <3>2. request' \in [Requests -> Shape]
      BY <3>1 DEF Inv, TypeOK
    <3>3. \E rows : Inserted(rows)
      BY <2>6, MarkInserts, BulkMarkInserts DEF Inv
    <3> QED
      BY <3>1, <3>2, <3>3, InsertInv
  <2> QED
    BY <2>1, <2>3, <2>4, <2>5, <2>6
<1>3. CASE ReviewStep
  BY <1>3, ConfirmInv, RejectPaymentInv
<1>4. CASE UNCHANGED vars
  <2>1. UNCHANGED <<debt, payment>> /\ request' = request
    BY <1>4 DEF vars
  <2> QED
    BY <2>1, RequestInv DEF Inv, TypeOK
<1> QED
  BY <1>1, <1>2, <1>3, <1>4

\* The invariant holds in every state of every behaviour.
LEMMA InvAlways == Spec => []Inv
BY InitInv, NextInv, PTL DEF Spec

-------------------------------------------------------------------------------
(* The invariants of the ledger. *)

\* The tables keep their types: in particular no confirmation, however the
\* marks overlapped, takes what is left of a debt below zero.
THEOREM TypeCorrect == Spec => []TypeOK
<1>1. Inv => TypeOK
  BY DEF Inv
<1> QED
  BY <1>1, InvAlways, PTL

\* What is left of a debt and its confirmed payments add up to its original.
THEOREM MoneyIsConserved == Spec => []MoneyConserved
<1>1. Inv => MoneyConserved
  BY DEF Inv
<1> QED
  BY <1>1, InvAlways, PTL

\* A debt is settled exactly when nothing is left of it, partially settled
\* exactly when a part of it is.
THEOREM StatusIsRight == Spec => []StatusTellsRemaining
<1>1. Inv => StatusTellsRemaining
  BY DEF Inv
<1> QED
  BY <1>1, InvAlways, PTL

\* No payment is ever on a debt its debtor has not accepted.
THEOREM NoUnacceptedPayment == Spec => []PaymentsNeedAcceptance
<1>1. Inv => PaymentsNeedAcceptance
  BY DEF Inv
<1> QED
  BY <1>1, InvAlways, PTL

\* Payments go from debtor to creditor and never exceed their debt.
THEOREM PaymentsFit == Spec => []PaymentFitsDebt
<1>1. Inv => PaymentFitsDebt
  BY DEF Inv
<1> QED
  BY <1>1, InvAlways, PTL
-------------------------------------------------------------------------------
(* How many payments of a debt can wait at a time. *)

\* The requests under way whose snapshot shows no pending payment of debt d.
Open(d) ==
    {r \in Requests :
       \/ request[r] \in MarkRequest /\ request[r].debt = d /\ request[r].pendingSeen <= 0
       \/ request[r] \in BulkRequest /\ d \in request[r].seen}

Waiting(d) == PaymentsOn(d, "pending_confirmation")

\* What is waiting and what may still be added are within the number of requests.
OpenBounded == \A d \in Debts : Cardinality(Waiting(d)) + Cardinality(Open(d)) <= Cardinality(Requests)

\* Both sets are finite.
LEMMA WaitingFinite ==
  ASSUME TypeOK, NEW d
  PROVE  /\ IsFiniteSet(Waiting(d))
         /\ IsFiniteSet(Open(d))
         /\ Cardinality(Waiting(d)) \in Nat
         /\ Cardinality(Open(d)) \in Nat
         /\ Cardinality(Open(d)) <= Cardinality(Requests)
<1>1. Waiting(d) \in SUBSET Payments /\ Open(d) \in SUBSET Requests
  BY DEF Waiting, Open, PaymentsOn, TypeOK
<1> QED
  BY <1>1, LedgerAssumption, FS_Subset, FS_CardinalityType

\* A sum of zero pending money means that no payment is pending.
LEMMA NothingWaits ==
  ASSUME TypeOK, NEW d, PendingTotal(d) <= 0
  PROVE  Waiting(d) = {}
<1> DEFINE f == AmountsOf(Waiting(d))
<1>1. IsFiniteSet(Units(f)) /\ Total(f) \in Nat
  BY WaitingFinite, TotalIsNat DEF AmountsOf
<1>2. Total(f) = 0
  BY <1>1 DEF PendingTotal, Waiting
<1>3. Units(f) = {}
  BY <1>1, <1>2, FS_EmptySet DEF Total
<1>4. ASSUME NEW p \in Waiting(d) PROVE FALSE
  <2>1. payment[p].amount \in Amounts
    BY <1>4 DEF Waiting, PaymentsOn, TypeOK, PaymentRow
  <2>2. 1 \in Amounts /\ 1 <= f[p]
    BY <1>4, <2>1, LedgerAssumption DEF Amounts, AmountsOf
  <2>3. <<p, 1>> \in Units(f)
    BY <1>4, <2>2 DEF Units, AmountsOf
  <2> QED
    BY <1>3, <2>3
<1> QED
  BY <1>4

\* What a step can do to one debt: it adds nothing, or there was nothing, or it
\* adds one payment and uses up one request.
AddsNothing(d) == Waiting(d)' \subseteq Waiting(d) /\ Open(d)' \subseteq Open(d)
NothingThere(d) == Waiting(d)' = {}
UsesOne(d) ==
    \E r \in Open(d) : \E p :
      /\ Waiting(d)' \subseteq Waiting(d) \cup {p}
      /\ Open(d)' \subseteq Open(d) \ {r}

\* Each of the three keeps the bound.
LEMMA BoundKept ==
  ASSUME TypeOK, TypeOK', NEW d,
         Cardinality(Waiting(d)) + Cardinality(Open(d)) <= Cardinality(Requests),
         AddsNothing(d) \/ NothingThere(d) \/ UsesOne(d)
  PROVE  Cardinality(Waiting(d)') + Cardinality(Open(d)') <= Cardinality(Requests)
<1>1. /\ IsFiniteSet(Waiting(d)) /\ IsFiniteSet(Open(d))
      /\ Cardinality(Waiting(d)) \in Nat
      /\ Cardinality(Open(d)) \in Nat
  BY WaitingFinite
<1>2. /\ IsFiniteSet(Waiting(d)') /\ IsFiniteSet(Open(d)')
      /\ Cardinality(Waiting(d)') \in Nat
      /\ Cardinality(Open(d)') \in Nat
      /\ Cardinality(Open(d)') <= Cardinality(Requests)
  <2>1. Waiting(d)' \in SUBSET Payments /\ Open(d)' \in SUBSET Requests
    BY DEF Waiting, Open, PaymentsOn, TypeOK
  <2> QED
    BY <2>1, LedgerAssumption, FS_Subset, FS_CardinalityType
<1>3. Cardinality(Requests) \in Nat
  BY LedgerAssumption, FS_CardinalityType
<1>4. CASE AddsNothing(d)
  <2>1. /\ Cardinality(Waiting(d)') <= Cardinality(Waiting(d))
        /\ Cardinality(Open(d)') <= Cardinality(Open(d))
    BY <1>1, <1>4, FS_Subset DEF AddsNothing
  <2> QED
    BY <1>1, <1>2, <1>3, <2>1
<1>5. CASE NothingThere(d)
  BY <1>2, <1>3, <1>5, FS_EmptySet DEF NothingThere
<1>6. CASE UsesOne(d)
  <2>a. PICK r \in Open(d) :
          \E p : /\ Waiting(d)' \subseteq Waiting(d) \cup {p}
                /\ Open(d)' \subseteq Open(d) \ {r}
    BY <1>6 DEF UsesOne
  <2>1. PICK p : /\ Waiting(d)' \subseteq Waiting(d) \cup {p}
                 /\ Open(d)' \subseteq Open(d) \ {r}
    BY <2>a
  <2>2. /\ IsFiniteSet(Waiting(d) \cup {p})
        /\ Cardinality(Waiting(d) \cup {p})
             \in {Cardinality(Waiting(d)), Cardinality(Waiting(d)) + 1}
    <3> DEFINE waiting == Waiting(d)
    <3>1. IsFiniteSet(waiting)
      BY <1>1
    <3> HIDE DEF waiting
    <3>2. /\ IsFiniteSet(waiting \cup {p})
          /\ Cardinality(waiting \cup {p}) \in {Cardinality(waiting), Cardinality(waiting) + 1}
      <4>1. p \in waiting => waiting \cup {p} = waiting
        OBVIOUS
      <4> QED
        BY <3>1, <4>1, FS_AddElement
    <3> QED
      BY <3>2 DEF waiting
  <2>3. Cardinality(Waiting(d)') <= Cardinality(Waiting(d) \cup {p})
    BY <2>1, <2>2, FS_Subset
  <2>4. /\ IsFiniteSet(Open(d) \ {r})
        /\ Cardinality(Open(d) \ {r}) = Cardinality(Open(d)) - 1
    BY <1>1, FS_RemoveElement
  <2>5. Cardinality(Open(d)') <= Cardinality(Open(d) \ {r})
    BY <2>1, <2>4, FS_Subset
  <2>6. Cardinality(Waiting(d) \cup {p}) \in Nat
    BY <2>2, FS_CardinalityType
  <2>7. Cardinality(Waiting(d)') <= Cardinality(Waiting(d)) + 1
    BY <1>1, <1>2, <2>2, <2>3, <2>6
  <2>8. Cardinality(Open(d)') <= Cardinality(Open(d)) - 1
    BY <2>4, <2>5
  <2> QED
    BY <1>1, <1>2, <1>3, <2>7, <2>8
<1> QED
  BY <1>4, <1>5, <1>6

\* A Mark or a BulkMark that commits uses up its request: it adds at most one
\* payment to a debt, and only to debts its snapshot saw with none.
LEMMA MarkUsesOne ==
  ASSUME TypeOK, NEW r \in Requests, MarkCommit(r), NEW d \in Debts
  PROVE  AddsNothing(d) \/ UsesOne(d)
<1> DEFINE req == request[r]
<1>1. req \in MarkRequest
  BY DEF TypeOK, MarkCommit, Idle, MarkRequest, BulkRequest
<1>2. PICK p \in FreshIds :
        InsertPayments([q \in {p} |->
          [status |-> "pending_confirmation", debt |-> req.debt, paidBy |-> req.user,
           receivedBy |-> Creditor[req.debt], amount |-> req.amount]])
  BY DEF MarkCommit
<1>3. /\ req.pendingSeen <= 0
      /\ request' = [request EXCEPT ![r] = Idle]
  BY DEF MarkCommit, CanMark
<1>4. Open(d)' \subseteq Open(d) \ {r}
  BY <1>3 DEF Open, TypeOK, Idle, MarkRequest, BulkRequest
<1>5. CASE req.debt = d
  <2>1. r \in Open(d)
    BY <1>1, <1>3, <1>5 DEF Open
  <2>2. Waiting(d)' \subseteq Waiting(d) \cup {p}
    BY <1>2 DEF InsertPayments, FreshIds, Waiting, PaymentsOn
  <2> QED
    BY <1>4, <2>1, <2>2 DEF UsesOne
<1>6. CASE req.debt # d
  <2>1. Waiting(d)' \subseteq Waiting(d)
    BY <1>2, <1>6 DEF InsertPayments, FreshIds, Waiting, PaymentsOn
  <2> QED
    BY <1>4, <2>1 DEF AddsNothing
<1> QED
  BY <1>5, <1>6

LEMMA BulkMarkUsesOne ==
  ASSUME TypeOK, NEW r \in Requests, BulkMarkCommit(r), NEW d \in Debts
  PROVE  AddsNothing(d) \/ UsesOne(d)
<1> DEFINE req == request[r]
           n == Cardinality(Locked(req))
<1>1. req \in BulkRequest
  BY DEF TypeOK, BulkMarkCommit, Idle, MarkRequest, BulkRequest
<1>2. PICK order \in Bijection(1..n, Locked(req)), left \in [0..n -> 0..req.amount] :
        \E ids \in SUBSET FreshIds :
        \E at \in Bijection(ids, {i \in 1..n : left[i - 1] # 0}) :
          InsertPayments([p \in ids |->
            [status |-> "pending_confirmation", debt |-> order[at[p]],
             paidBy |-> req.user, receivedBy |-> req.receiver,
             amount |-> left[at[p] - 1] - left[at[p]]]])
  BY DEF BulkMarkCommit
<1>3. PICK ids \in SUBSET FreshIds :
        \E at \in Bijection(ids, {i \in 1..n : left[i - 1] # 0}) :
          InsertPayments([p \in ids |->
            [status |-> "pending_confirmation", debt |-> order[at[p]],
             paidBy |-> req.user, receivedBy |-> req.receiver,
             amount |-> left[at[p] - 1] - left[at[p]]]])
  BY <1>2
<1>4. PICK at \in Bijection(ids, {i \in 1..n : left[i - 1] # 0}) :
        InsertPayments([p \in ids |->
          [status |-> "pending_confirmation", debt |-> order[at[p]],
           paidBy |-> req.user, receivedBy |-> req.receiver,
           amount |-> left[at[p] - 1] - left[at[p]]]])
  BY <1>3
<1>5. /\ order \in [1..n -> Locked(req)]
      /\ \A i, j \in 1..n : order[i] = order[j] => i = j
      /\ at \in [ids -> 1..n]
      /\ \A p, q \in ids : at[p] = at[q] => p = q
  BY DEF Bijection, Injection, Surjection, IsInjective
<1>6. request' = [request EXCEPT ![r] = Idle]
  BY DEF BulkMarkCommit
<1>7. Open(d)' \subseteq Open(d) \ {r}
  BY <1>6 DEF Open, TypeOK, Idle, MarkRequest, BulkRequest
<1>8. Waiting(d)' \subseteq Waiting(d) \cup {p \in ids : order[at[p]] = d}
  BY <1>4 DEF InsertPayments, FreshIds, Waiting, PaymentsOn
<1>9. CASE \E p \in ids : order[at[p]] = d
  <2>1. PICK p \in ids : order[at[p]] = d
    BY <1>9
  <2>2. \A q \in ids : order[at[q]] = d => q = p
    BY <1>5, <2>1
  <2>3. d \in req.seen
    BY <1>5, <2>1 DEF Locked
  <2>4. r \in Open(d)
    BY <1>1, <2>3 DEF Open
  <2>5. Waiting(d)' \subseteq Waiting(d) \cup {p}
    BY <1>8, <2>2
  <2> QED
    BY <1>7, <2>4, <2>5 DEF UsesOne
<1>10. CASE ~ \E p \in ids : order[at[p]] = d
  BY <1>7, <1>8, <1>10 DEF AddsNothing
<1> QED
  BY <1>9, <1>10

\* Every step does one of the three things to each debt.
LEMMA StepOnDebt ==
  ASSUME TypeOK, [Next]_vars, NEW d \in Debts
  PROVE  AddsNothing(d) \/ NothingThere(d) \/ UsesOne(d)
<1>1. ASSUME UNCHANGED <<payment, request>>
      PROVE  AddsNothing(d)
  BY <1>1 DEF AddsNothing, Waiting, Open, PaymentsOn
<1>2. CASE DebtStep
  BY <1>1, <1>2 DEF DebtStep, AcceptDebt, RejectDebt, ReviewRejectedDebt
<1>3. CASE MarkStep
  <2>1. PICK r \in Requests :
          \/ \E user \in Users, e \in Debts, amount \in Amounts : MarkBegin(r, user, e, amount)
          \/ MarkCommit(r)
          \/ \E user, receiver \in Users, amount \in Amounts :
               BulkMarkBegin(r, user, receiver, amount)
          \/ BulkMarkCommit(r)
          \/ RollBack(r)
    BY <1>3 DEF MarkStep
  <2>2. ASSUME NEW user \in Users, NEW e \in Debts, NEW amount \in Amounts,
               MarkBegin(r, user, e, amount)
        PROVE  AddsNothing(d) \/ NothingThere(d)
    <3>1. /\ payment' = payment
          /\ request' = [request EXCEPT ![r] =
                          [kind |-> "mark", user |-> user, debt |-> e, amount |-> amount,
                           pendingSeen |-> PendingTotal(e)]]
      BY <2>2 DEF MarkBegin
    <3>2. Waiting(d)' = Waiting(d)
      BY <3>1 DEF Waiting, PaymentsOn
    <3>3. CASE e = d /\ PendingTotal(e) <= 0
      BY <3>2, <3>3, NothingWaits DEF NothingThere
    <3>4. CASE ~ (e = d /\ PendingTotal(e) <= 0)
      <4>1. r \notin Open(d)'
        BY <3>1, <3>4 DEF Open, TypeOK, MarkRequest, BulkRequest
      <4>2. Open(d)' \subseteq Open(d)
        BY <3>1, <4>1 DEF Open, TypeOK
      <4> QED
        BY <3>2, <4>2 DEF AddsNothing
    <3> QED
      BY <3>3, <3>4
  <2>3. ASSUME NEW user \in Users, NEW receiver \in Users, NEW amount \in Amounts,
               BulkMarkBegin(r, user, receiver, amount)
        PROVE  AddsNothing(d) \/ NothingThere(d)
    <3> DEFINE seen == {e \in Debts : /\ BulkPayable(e, user, receiver)
                                      /\ PaymentsOn(e, "pending_confirmation") = {}}
    <3>1. /\ payment' = payment
          /\ request' = [request EXCEPT ![r] =
                          [kind |-> "bulk", user |-> user, receiver |-> receiver,
                           amount |-> amount, seen |-> seen]]
      BY <2>3 DEF BulkMarkBegin
    <3>2. Waiting(d)' = Waiting(d)
      BY <3>1 DEF Waiting, PaymentsOn
    <3>3. CASE d \in seen
      BY <3>2, <3>3 DEF NothingThere, Waiting
    <3> HIDE DEF seen
    <3>4. CASE d \notin seen
      <4>1. r \notin Open(d)'
        BY <3>1, <3>4 DEF Open, TypeOK, MarkRequest, BulkRequest
      <4>2. Open(d)' \subseteq Open(d)
        BY <3>1, <4>1 DEF Open, TypeOK
      <4> QED
        BY <3>2, <4>2 DEF AddsNothing
    <3> QED
      BY <3>3, <3>4
  <2>4. CASE RollBack(r)
    <3>1. payment' = payment /\ request' = [request EXCEPT ![r] = Idle]
      BY <2>4 DEF RollBack
    <3>2. Waiting(d)' = Waiting(d)
      BY <3>1 DEF Waiting, PaymentsOn
    <3>3. Open(d)' \subseteq Open(d)
      BY <3>1 DEF Open, TypeOK, Idle, MarkRequest, BulkRequest
    <3> QED
      BY <3>2, <3>3 DEF AddsNothing
  <2> QED
    BY <2>1, <2>2, <2>3, <2>4, MarkUsesOne, BulkMarkUsesOne
<1>4. CASE ReviewStep
  <2>1. PICK p \in DOMAIN payment, user \in Users :
          ConfirmPayment(p, user) \/ RejectPayment(p, user)
    BY <1>4 DEF ReviewStep
  <2>2. PICK s \in {"confirmed", "rejected"} : payment' = [payment EXCEPT ![p].status = s]
    BY <2>1 DEF ConfirmPayment, RejectPayment
  <2>3. request' = request
    BY <2>1 DEF ConfirmPayment, RejectPayment
  <2>4. Waiting(d)' \subseteq Waiting(d)
    BY <2>2 DEF Waiting, PaymentsOn, TypeOK, PaymentRow
  <2>5. Open(d)' = Open(d)
    BY <2>3 DEF Open
  <2> QED
    BY <2>4, <2>5 DEF AddsNothing
<1>5. CASE UNCHANGED vars
  BY <1>1, <1>5 DEF vars
<1> QED
  BY <1>2, <1>3, <1>4, <1>5 DEF Next

\* At the start nothing is pending and nothing under way.
LEMMA InitOpenBounded == Init => OpenBounded
<1> SUFFICES ASSUME Init, NEW d \in Debts
             PROVE  Cardinality(Waiting(d)) + Cardinality(Open(d)) <= Cardinality(Requests)
  BY DEF OpenBounded
<1>1. Waiting(d) = {}
  BY DEF Init, Waiting, PaymentsOn
<1>2. Open(d) = {}
  BY DEF Init, Open, Idle, MarkRequest, BulkRequest
<1>3. Cardinality(Requests) \in Nat
  BY LedgerAssumption, FS_CardinalityType
<1> QED
  BY <1>1, <1>2, <1>3, FS_EmptySet

\* The bound holds in every state of every behaviour.
LEMMA OpenBoundedAlways == Spec => [](Inv /\ OpenBounded)
<1>1. Inv /\ OpenBounded /\ [Next]_vars => OpenBounded'
  <2> SUFFICES ASSUME Inv, OpenBounded, [Next]_vars, NEW d \in Debts
               PROVE  Cardinality(Waiting(d)') + Cardinality(Open(d)') <= Cardinality(Requests)
    BY DEF OpenBounded
  <2>1. TypeOK /\ TypeOK'
    BY NextInv DEF Inv
  <2> QED
    BY <2>1, StepOnDebt, BoundKept DEF OpenBounded
<1> QED
  BY <1>1, InitInv, NextInv, InitOpenBounded, PTL DEF Spec

\* The payments of a debt that wait are no more than the requests that overlap.
THEOREM PendingIsBounded == Spec => []PendingBounded
<1>1. Inv /\ OpenBounded => PendingBounded
  <2> SUFFICES ASSUME TypeOK, OpenBounded, NEW d \in Debts
               PROVE  Cardinality(Waiting(d)) <= Cardinality(Requests)
    BY DEF PendingBounded, Inv, Waiting
  <2>1. Cardinality(Waiting(d)) + Cardinality(Open(d)) <= Cardinality(Requests)
    BY DEF OpenBounded
  <2>2. Cardinality(Requests) \in Nat
    BY LedgerAssumption, FS_CardinalityType
  <2> QED
    BY <2>1, <2>2, WaitingFinite
<1> QED
  BY <1>1, OpenBoundedAlways, PTL

\* Where marking requests do not overlap, the rule of docs/implementation.md
\* holds: a debt has one pending payment at most.
THEOREM OneMarkerOnePending ==
  ASSUME Cardinality(Requests) = 1
  PROVE  Spec => []OnePendingPerDebt
<1>1. PendingBounded => OnePendingPerDebt
  BY DEF PendingBounded, OnePendingPerDebt
<1> QED
  BY <1>1, PendingIsBounded, PTL

-------------------------------------------------------------------------------
(* The action properties. *)

\* Only a review changes a payment, only a pending one, and only its status.
LEMMA NextKeepsPayments == Inv /\ [Next]_vars => [KeepsPayments]_vars
<1> SUFFICES ASSUME Inv, Next PROVE KeepsPayments
  BY DEF vars
<1>1. ASSUME UNCHANGED payment
      PROVE  KeepsPayments
  BY <1>1 DEF KeepsPayments
<1>2. ASSUME NEW rows, Inserted(rows)
      PROVE  KeepsPayments
  BY <1>2 DEF Inserted, InsertPayments, FreshIds, KeepsPayments
<1>3. ASSUME NEW p \in DOMAIN payment, NEW user \in Users,
             ConfirmPayment(p, user) \/ RejectPayment(p, user)
      PROVE  KeepsPayments
  <2>1. payment[p].status = "pending_confirmation"
    BY <1>3 DEF ConfirmPayment, RejectPayment
  <2>2. PICK s \in {"confirmed", "rejected"} : payment' = [payment EXCEPT ![p].status = s]
    BY <1>3 DEF ConfirmPayment, RejectPayment
  <2>3. /\ DOMAIN payment' = DOMAIN payment
        /\ payment'[p] = [payment[p] EXCEPT !.status = s]
        /\ \A q \in DOMAIN payment \ {p} : payment'[q] = payment[q]
    BY <2>2 DEF Inv, TypeOK
  <2> QED
    BY <2>1, <2>3 DEF KeepsPayments
<1>4. ASSUME NEW r \in Requests, MarkCommit(r) \/ BulkMarkCommit(r)
      PROVE  KeepsPayments
  BY <1>2, <1>4, MarkInserts, BulkMarkInserts DEF Inv
<1> QED
  BY <1>1, <1>3, <1>4 DEF Next, DebtStep, MarkStep, ReviewStep, AcceptDebt, RejectDebt,
     ReviewRejectedDebt, MarkBegin, BulkMarkBegin, RollBack

\* A confirmed or rejected payment never changes again.
THEOREM PaymentsStayFinal == Spec => PaymentsAreFinal
<1>1. Inv /\ [Next]_vars => [KeepsPayments]_vars
  BY NextKeepsPayments
<1> QED
  BY <1>1, InvAlways, PTL DEF Spec, PaymentsAreFinal

\* After acceptance only a confirmation changes a debt.
LEMMA NextPaysByConfirmation == Inv /\ [Next]_vars => [PaysByConfirmation]_vars
<1> SUFFICES ASSUME Inv, Next PROVE PaysByConfirmation
  BY DEF vars
<1>1. ASSUME UNCHANGED debt
      PROVE  PaysByConfirmation
  BY <1>1 DEF PaysByConfirmation
<1>2. ASSUME NEW d \in Debts, debt[d].status \in {"pending", "rejected"},
             \A e \in Debts \ {d} : debt'[e] = debt[e]
      PROVE  PaysByConfirmation
  BY <1>2 DEF PaysByConfirmation
<1>3. DebtStep => PaysByConfirmation
  <2> SUFFICES ASSUME NEW d \in Debts, NEW user \in Users, NEW amount,
                      \/ AcceptDebt(d, user)
                      \/ RejectDebt(d, user)
                      \/ ReviewRejectedDebt(d, user, amount)
               PROVE  PaysByConfirmation
    BY DEF DebtStep
  <2>1. \A e \in Debts \ {d} : debt'[e] = debt[e]
    BY DEF Inv, TypeOK, AcceptDebt, RejectDebt, ReviewRejectedDebt
  <2>2. debt[d].status \in {"pending", "rejected"}
    BY DEF AcceptDebt, RejectDebt, ReviewRejectedDebt
  <2> QED
    BY <1>2, <2>1, <2>2
<1>4. ASSUME NEW p \in DOMAIN payment, NEW user \in Users, ConfirmPayment(p, user)
      PROVE  PaysByConfirmation
  <2> PICK d : d = payment[p].debt
    OBVIOUS
  <2>1. /\ d \in Debts
        /\ debt[d] \in DebtRow
        /\ debt' = [debt EXCEPT ![d] = PaidDown(@, payment[p].amount)]
    BY <1>4, ConfirmMovesAmount DEF Inv, TypeOK
  <2>2. /\ debt'[d].remaining = debt[d].remaining - payment[p].amount
        /\ debt'[d].original = debt[d].original
        /\ \A e \in Debts \ {d} : debt'[e] = debt[e]
    BY <2>1 DEF Inv, TypeOK, DebtRow, PaidDown
  <2>3. p \in PaymentsOn(d, "pending_confirmation") /\ payment'[p].status = "confirmed"
    BY <1>4 DEF ConfirmPayment, PaymentsOn, Inv, TypeOK, PaymentRow
  <2> QED
    BY <2>2, <2>3 DEF PaysByConfirmation
<1>5. MarkStep => UNCHANGED debt
  BY DEF MarkStep, MarkBegin, BulkMarkBegin, RollBack, MarkCommit, BulkMarkCommit
<1>6. ReviewStep => PaysByConfirmation
  BY <1>1, <1>4 DEF ReviewStep, RejectPayment
<1> QED
  BY <1>1, <1>3, <1>5, <1>6 DEF Next

\* An accepted debt shrinks by confirmations and changes in no other way.
THEOREM AcceptedDebtOnlyShrinks == Spec => OnlyConfirmationPays
<1>1. Inv /\ [Next]_vars => [PaysByConfirmation]_vars
  BY NextPaysByConfirmation
<1> QED
  BY <1>1, InvAlways, PTL DEF Spec, OnlyConfirmationPays

-------------------------------------------------------------------------------
(* A bulk mark places the whole amount. *)

\* A nonempty set of natural numbers has a least one.
LEMMA LeastNumber ==
  ASSUME NEW S \in SUBSET Nat, S # {}
  PROVE  \E m \in S : \A k \in S : m <= k
<1>1. PICK m \in S : \A k \in S : ~(<<k, m>> \in OpToRel(<, Nat))
  BY NatLessThanWellFounded, WFMin
<1>2. \A k \in S : ~(k < m)
  BY <1>1 DEF OpToRel
<1> QED
  BY <1>2

\* A sequence that never rises is not above an earlier value.
LEMMA FallsOnly ==
  ASSUME NEW n \in Nat, NEW left \in [0..n -> Nat], \A i \in 1..n : left[i] <= left[i - 1],
         NEW i \in 0..n, NEW j \in i..n
  PROVE  left[j] <= left[i]
<1> DEFINE Higher == {k \in i..n : left[k] > left[i]}
<1>1. \A k \in i..n : k \in 0..n /\ left[k] \in Nat
  OBVIOUS
<1>2. Higher \in SUBSET Nat
  OBVIOUS
<1>3. Higher = {}
  <2> SUFFICES ASSUME Higher # {} PROVE FALSE
    OBVIOUS
  <2>1. PICK k \in Higher : \A l \in Higher : k <= l
    BY <1>2, LeastNumber
  <2>2. k # i /\ k \in 1..n /\ k - 1 \in i..n /\ k - 1 \in 0..n
    BY <1>1
  <2>3. k - 1 \notin Higher
    BY <1>2, <2>1, <2>2
  <2>4. left[k - 1] <= left[i] /\ left[k] <= left[k - 1]
    BY <1>1, <2>2, <2>3
  <2> QED
    BY <1>1, <2>1, <2>2, <2>4
<1>4. left[j] \in Nat /\ left[i] \in Nat /\ ~(left[j] > left[i])
  BY <1>1, <1>3
<1> QED
  BY <1>4

\* A falling sequence is cut into slices, one between each value and the next.
\* If the slices of f are all those that are not empty, f adds up to the fall.
LEMMA SlicesAddUp ==
  ASSUME NEW n \in Nat, NEW left \in [0..n -> Nat], left[0] <= MaxAmount,
         \A i \in 1..n : left[i] <= left[i - 1],
         NEW f, NEW at \in [DOMAIN f -> 1..n],
         \A x, y \in DOMAIN f : at[x] = at[y] => x = y,
         \A i \in 1..n : left[i] # left[i - 1] => \E x \in DOMAIN f : at[x] = i,
         \A x \in DOMAIN f : f[x] = left[at[x] - 1] - left[at[x]]
  PROVE  Total(f) = left[0] - left[n]
<1> DEFINE X == DOMAIN f
           range == (left[n] + 1)..left[0]
           place == [u \in Units(f) |-> left[at[u[1]]] + u[2]]
<1>1. 0 \in 0..n /\ n \in 0..n /\ \A i \in 1..n : i \in 0..n /\ i - 1 \in 0..n /\ n \in i..n
  OBVIOUS
<1>2. /\ left[0] \in Nat /\ left[n] \in Nat
      /\ \A i \in 1..n : left[i] \in Nat /\ left[i - 1] \in Nat
  BY <1>1
<1>3. \A i \in 0..n : \A j \in i..n : left[j] <= left[i]
  BY FallsOnly
<1>4. left[n] <= left[0] /\ \A i \in 1..n : left[n] <= left[i] /\ left[i - 1] <= left[0]
  <2>1. \A i \in 0..n : i \in 0..n /\ n \in i..n
    OBVIOUS
  <2>2. \A i \in 1..n : i - 1 \in 0..n /\ i - 1 \in (0)..n
    OBVIOUS
  <2> QED
    BY <1>1, <1>3, <2>1, <2>2
<1>5. \A i, j \in 1..n : i < j => left[j - 1] <= left[i]
  <2>1. \A i, j \in 1..n : i < j => i \in 0..n /\ j - 1 \in i..n
    OBVIOUS
  <2> QED
    BY <1>3, <2>1
<1>6. \A x \in X : at[x] \in 1..n
  OBVIOUS
<1>7. \A u \in Units(f) : /\ u[1] \in X /\ u[2] \in Nat \ {0} /\ u = <<u[1], u[2]>>
                          /\ u[2] <= f[u[1]]
  BY LedgerAssumption DEF Units, Amounts
<1>8. ASSUME NEW u \in Units(f), NEW i \in 1..n, i = at[u[1]]
      PROVE  /\ place[u] = left[i] + u[2]
             /\ place[u] \in (left[i] + 1)..left[i - 1] /\ place[u] \in range
  <2>1. place[u] = left[i] + u[2] /\ u[2] \in Nat \ {0} /\ u[2] <= left[i - 1] - left[i]
    BY <1>7, <1>8
  <2>2. PICK a \in Nat, b \in Nat, c \in Nat, d \in Nat :
          a = left[i - 1] /\ b = left[i] /\ c = left[n] /\ d = left[0] /\ c <= b /\ a <= d
    BY <1>2, <1>4
  <2>3. PICK k \in Nat \ {0} : k = u[2] /\ k <= a - b
    BY <2>1, <2>2
  <2>4. b + k \in (b + 1)..a /\ b + k \in (c + 1)..d
    <3>1. c <= b /\ a <= d /\ k <= a - b
      BY <2>2, <2>3
    <3> QED
      BY <3>1
  <2> HIDE DEF place
  <2> QED
    BY <2>1, <2>2, <2>3, <2>4
<1>9. ASSUME NEW u \in Units(f), NEW v \in Units(f), place[u] = place[v] PROVE u = v
  <2>1. PICK i \in 1..n : i = at[u[1]]
    BY <1>6, <1>7
  <2>2. PICK j \in 1..n : j = at[v[1]]
    BY <1>6, <1>7
  <2>3. /\ place[u] \in (left[i] + 1)..left[i - 1] /\ place[u] = left[i] + u[2]
        /\ place[v] \in (left[j] + 1)..left[j - 1] /\ place[v] = left[j] + v[2]
    BY <1>8, <2>1, <2>2
  <2>4. /\ left[i - 1] \in Nat /\ left[i] \in Nat /\ left[j - 1] \in Nat /\ left[j] \in Nat
        /\ i < j => left[j - 1] <= left[i]
        /\ j < i => left[i - 1] <= left[j]
    BY <1>2, <1>5
  <2> HIDE DEF place
  <2>5. ~(i < j) /\ ~(j < i)
    BY <1>9, <2>3, <2>4
  <2>6. i = j
    BY <2>5
  <2>7. u[1] = v[1]
    BY <1>7, <2>1, <2>2, <2>6
  <2>8. u[2] = v[2]
    <3>1. PICK a \in Nat, k \in Nat, l \in Nat : a = left[i] /\ k = u[2] /\ l = v[2]
      BY <1>7, <2>4
    <3>2. a + k = a + l
      BY <1>9, <2>3, <2>6, <3>1
    <3> QED
      BY <3>1, <3>2
  <2> QED
    BY <1>7, <2>7, <2>8
<1>10. ASSUME NEW k \in range PROVE \E u \in Units(f) : place[u] = k
  <2> DEFINE Below == {i \in 0..n : left[i] < k}
  <2>1. k \in Nat /\ left[n] < k /\ k <= left[0]
    BY <1>2
  <2>2. n \in Below /\ Below \in SUBSET Nat
    BY <1>1, <2>1
  <2>3. PICK i \in Below : \A j \in Below : i <= j
    BY <2>2, LeastNumber
  <2>4. i # 0
    BY <1>2, <2>1
  <2>5. i \in 1..n
    BY <2>4
  <2>6. i - 1 \in 0..n /\ i - 1 \notin Below
    BY <2>3, <2>5
  <2>7. left[i] \in Nat /\ left[i - 1] \in Nat /\ left[i] < k /\ k <= left[i - 1]
        /\ left[i - 1] <= left[0]
    BY <1>2, <1>4, <2>1, <2>5, <2>6
  <2>8. left[i] # left[i - 1]
    BY <2>1, <2>7
  <2>9. PICK x \in X : at[x] = i
    BY <2>5, <2>8
  <2>10. f[x] = left[i - 1] - left[i]
    BY <2>9
  <2>11. k - left[i] \in 1..MaxAmount /\ k - left[i] <= f[x]
    <3>1. PICK a \in Nat, b \in Nat, c \in Nat :
            a = left[i - 1] /\ b = left[i] /\ c = left[0] /\ b < k /\ k <= a /\ a <= c
      BY <1>2, <2>7
    <3>2. c <= MaxAmount /\ f[x] = a - b
      BY <2>10, <3>1
    <3>3. PICK m \in Nat : m = MaxAmount /\ c <= m
      BY <3>2, LedgerAssumption
    <3>4. k \in Nat /\ b < k /\ k <= a /\ a <= c
      BY <2>1, <3>1
    <3>5. k - b \in 1..m /\ k - b <= a - b
      BY <3>3, <3>4
    <3> QED
      BY <3>1, <3>2, <3>3, <3>5
  <2>12. <<x, k - left[i]>> \in Units(f)
    BY <2>11 DEF Units, Amounts
  <2>13. place[<<x, k - left[i]>>] = left[i] + (k - left[i])
    BY <2>9, <2>12
  <2>14. left[i] + (k - left[i]) = k
    BY <2>1, <2>7
  <2> QED
    BY <2>12, <2>13, <2>14
<1>11. place \in Bijection(Units(f), range)
  <2>1. place \in [Units(f) -> range]
    BY <1>6, <1>7, <1>8
  <2> HIDE DEF place, range
  <2>2. place \in Injection(Units(f), range)
    BY <1>9, <2>1 DEF Injection, IsInjective
  <2>3. place \in Surjection(Units(f), range)
    BY <1>10, <2>1 DEF Surjection
  <2> QED
    BY <2>2, <2>3 DEF Bijection
<1>12. Cardinality(range) = left[0] - left[n] /\ IsFiniteSet(range)
  <2>1. left[n] + 1 \in Int /\ left[0] \in Int
    BY <1>2
  <2>2. /\ IsFiniteSet(range)
        /\ Cardinality(range) = IF left[n] + 1 > left[0] THEN 0 ELSE left[0] - (left[n] + 1) + 1
    BY <2>1, FS_Interval
  <2>3. PICK a \in Nat, b \in Nat : a = left[n] /\ b = left[0] /\ a <= b
    BY <1>2, <1>4
  <2>4. (IF a + 1 > b THEN 0 ELSE b - (a + 1) + 1) = b - a
    BY <2>3
  <2> HIDE DEF range
  <2> QED
    BY <2>2, <2>3, <2>4
<1>13. ExistsBijection(range, Units(f))
  <2>1. ExistsBijection(Units(f), range)
    BY <1>11 DEF ExistsBijection
  <2> QED
    BY <2>1, Fun_ExistsBijSymmetric
<1>14. Cardinality(Units(f)) = Cardinality(range)
  BY <1>12, <1>13, FS_Bijection
<1> QED
  BY <1>12, <1>14 DEF Total

\* What a bulk mark that commits does: the payments are on different debts,
\* each within what is left, and add up to the amount asked for.
LEMMA BulkMarkPlaces ==
  ASSUME TypeOK, NEW r \in Requests, BulkMarkCommit(r)
  PROVE  /\ Total([p \in NewPayments |-> payment'[p].amount]) = request[r].amount
         /\ \A p, q \in NewPayments : payment'[p].debt = payment'[q].debt => p = q
         /\ \A p \in NewPayments : payment'[p].amount <= debt[payment'[p].debt].remaining
<1> DEFINE req == request[r]
           n == Cardinality(Locked(req))
           new(ids, at, order, left) ==
             [p \in ids |->
                [status |-> "pending_confirmation", debt |-> order[at[p]],
                 paidBy |-> req.user, receivedBy |-> req.receiver,
                 amount |-> left[at[p] - 1] - left[at[p]]]]
<1>1. req \in BulkRequest /\ req.amount <= Total(Available(req))
  BY DEF TypeOK, BulkMarkCommit, Idle, MarkRequest, BulkRequest
<1>2. PICK order \in Bijection(1..n, Locked(req)), left \in [0..n -> 0..req.amount] :
        /\ Allocates(left, order, req.amount)
        /\ \E ids \in SUBSET FreshIds :
           \E at \in Bijection(ids, {i \in 1..n : left[i - 1] # 0}) :
             InsertPayments(new(ids, at, order, left))
  BY DEF BulkMarkCommit
<1>3. PICK ids \in SUBSET FreshIds :
        \E at \in Bijection(ids, {i \in 1..n : left[i - 1] # 0}) :
          InsertPayments(new(ids, at, order, left))
  BY <1>2
<1> DEFINE I == {i \in 1..n : left[i - 1] # 0}
<1>4. PICK at \in Bijection(ids, I) : InsertPayments(new(ids, at, order, left))
  BY <1>3
<1>5. /\ order \in [1..n -> Locked(req)] /\ \A i, j \in 1..n : order[i] = order[j] => i = j
      /\ \A d \in Locked(req) : \E i \in 1..n : order[i] = d
      /\ at \in [ids -> I] /\ \A p, q \in ids : at[p] = at[q] => p = q
      /\ \A i \in I : \E p \in ids : at[p] = i
  BY DEF Bijection, Injection, Surjection, IsInjective
<1>6. Locked(req) \subseteq Debts /\ n \in Nat
  <2>1. Locked(req) \in SUBSET Debts
    BY <1>1 DEF Locked, BulkRequest
  <2> QED
    BY <2>1, LedgerAssumption, FS_Subset, FS_CardinalityType
<1>7. req.amount \in Nat /\ req.amount <= MaxAmount
  BY <1>1, LedgerAssumption DEF BulkRequest, Amounts
<1>8. left \in [0..n -> Nat] /\ left[0] = req.amount
  BY <1>2, <1>7 DEF Allocates
<1> HIDE DEF req, n
<1>9. \A i \in 1..n : i \in 0..n /\ i - 1 \in 0..n /\ left[i] \in Nat /\ left[i - 1] \in Nat
  <2>1. \A i \in 1..n : i \in 0..n /\ i - 1 \in 0..n
    BY <1>6
  <2> QED
    BY <1>8, <2>1
<1>10. \A i \in 1..n : order[i] \in Locked(req) /\ debt[order[i]].remaining \in 1..MaxAmount
  BY <1>5, <1>6, LedgerAssumption DEF Locked, BulkPayable, TypeOK, DebtRow
<1>11. ASSUME NEW i \in 1..n
       PROVE  /\ left[i] <= left[i - 1]
              /\ left[i - 1] - left[i] <= debt[order[i]].remaining
              /\ left[i - 1] = 0 => left[i] = 0
              /\ left[i] # 0 => left[i - 1] - left[i] = debt[order[i]].remaining
  <2>1. left[i] = left[i - 1] - Least(debt[order[i]].remaining, left[i - 1])
    BY <1>2, <1>5 DEF Allocates
  <2>2. PICK a \in Nat, b \in Nat, c \in Nat :
          a = left[i - 1] /\ b = left[i] /\ c = debt[order[i]].remaining
    BY <1>9, <1>10, LedgerAssumption
  <2>3. b = a - (IF c <= a THEN c ELSE a)
    BY <2>1, <2>2 DEF Least
  <2>4. b <= a /\ a - b <= c /\ (a = 0 => b = 0) /\ (b # 0 => a - b = c)
    BY <2>3
  <2> QED
    BY <2>2, <2>4
<1>12. left[n] = 0
  <2> SUFFICES ASSUME left[n] # 0 PROVE FALSE
    OBVIOUS
  <2>1. \A i \in 0..n : left[i] \in Nat /\ left[i] # 0
    <3>1. \A i \in 0..n : n \in i..n
      BY <1>6
    <3>2. \A i \in 0..n : left[n] <= left[i]
      BY <1>6, <1>8, <1>11, <3>1, FallsOnly
    <3>3. n \in 0..n
      BY <1>6
    <3> QED
      BY <1>8, <3>2, <3>3
  <2>2. PICK rank \in Bijection(Locked(req), 1..n) : \A d \in Locked(req) : order[rank[d]] = d
    <3> DEFINE first == [d \in Locked(req) |-> CHOOSE i \in 1..n : order[i] = d]
    <3>1. \A d \in Locked(req) : first[d] \in 1..n /\ order[first[d]] = d
      BY <1>5
    <3>2. \A i \in 1..n : order[i] \in Locked(req) /\ first[order[i]] = i
      BY <1>5, <3>1
    <3>3. first \in [Locked(req) -> 1..n]
      BY <3>1
    <3> HIDE DEF first
    <3>4. first \in Injection(Locked(req), 1..n)
      BY <3>1, <3>3 DEF Injection, IsInjective
    <3>5. first \in Surjection(Locked(req), 1..n)
      BY <3>2, <3>3 DEF Surjection
    <3> QED
      BY <3>1, <3>4, <3>5 DEF Bijection
  <2>3. rank \in [Locked(req) -> 1..n]
    BY DEF Bijection, Injection
  <2>4. \A d \in Locked(req) :
          Available(req)[d] = left[rank[d] - 1] - left[rank[d]]
    BY <1>9, <1>11, <2>1, <2>2, <2>3 DEF Available
  <2>5. DOMAIN Available(req) = Locked(req)
    BY DEF Available
  <2>6. left[0] <= MaxAmount /\ \A i \in 1..n : left[i] <= left[i - 1]
    BY <1>7, <1>8, <1>11
  <2>7. Total(Available(req)) = left[0] - left[n]
    <3>1. PICK f : f = Available(req)
      OBVIOUS
    <3>2. DOMAIN f = Locked(req)
      BY <2>5, <3>1
    <3>3. \A x \in DOMAIN f : f[x] = left[rank[x] - 1] - left[rank[x]]
      BY <2>4, <3>1, <3>2
    <3>4. rank \in [DOMAIN f -> 1..n] /\ \A x, y \in DOMAIN f : rank[x] = rank[y] => x = y
      BY <2>2, <2>3, <3>2
    <3>5. \A i \in 1..n : left[i] # left[i - 1] => \E x \in DOMAIN f : rank[x] = i
      BY <2>2, <3>2 DEF Bijection, Surjection
    <3>6. left[0] <= MaxAmount
      BY <2>6
    <3>7. \A i \in 1..n : left[i] <= left[i - 1]
      BY <2>6
    <3>8. Total(f) = left[0] - left[n]
      BY <1>6, <1>8, <3>3, <3>4, <3>5, <3>6, <3>7, SlicesAddUp
    <3> QED
      BY <3>1, <3>8
  <2>8. left[0] \in Nat /\ left[n] \in Nat
    BY <1>6, <1>8
  <2> QED
    BY <1>1, <1>8, <2>7, <2>8
<1>13. NewPayments = ids /\ \A p \in ids : payment'[p] = new(ids, at, order, left)[p]
  <2>1. ids \cap DOMAIN payment = {}
    BY DEF FreshIds
  <2>2. DOMAIN payment' = DOMAIN payment \cup ids
    BY <1>4 DEF InsertPayments
  <2> QED
    BY <1>4, <2>1, <2>2 DEF InsertPayments, NewPayments
<1>14. \A p \in ids : /\ payment'[p].debt = order[at[p]]
                      /\ payment'[p].amount = left[at[p] - 1] - left[at[p]]
  <2>1. \A p \in ids : /\ new(ids, at, order, left)[p].debt = order[at[p]]
                       /\ new(ids, at, order, left)[p].amount = left[at[p] - 1] - left[at[p]]
    OBVIOUS
  <2> HIDE DEF new
  <2> QED
    BY <1>13, <2>1
<1>15. Total([p \in NewPayments |-> payment'[p].amount]) = req.amount
  <2>1. PICK f : f = [p \in NewPayments |-> payment'[p].amount]
    OBVIOUS
  <2>2. DOMAIN f = ids
    BY <1>13, <2>1
  <2>3. \A p \in DOMAIN f : f[p] = left[at[p] - 1] - left[at[p]]
    BY <1>13, <1>14, <2>1
  <2>4. left[0] <= MaxAmount
    BY <1>7, <1>8
  <2>5. \A i \in 1..n : left[i] <= left[i - 1]
    BY <1>11
  <2>6. at \in [DOMAIN f -> 1..n] /\ \A p, q \in DOMAIN f : at[p] = at[q] => p = q
    BY <1>5, <2>2
  <2>7. \A i \in 1..n : left[i] # left[i - 1] => \E p \in DOMAIN f : at[p] = i
    BY <1>5, <1>9, <1>11, <2>2
  <2> HIDE DEF I
  <2>8. Total(f) = left[0] - left[n]
    BY <1>6, <1>8, <2>3, <2>4, <2>5, <2>6, <2>7, SlicesAddUp
  <2> QED
    BY <1>7, <1>8, <1>12, <2>1, <2>8
<1>16. \A p, q \in NewPayments : payment'[p].debt = payment'[q].debt => p = q
  BY <1>5, <1>13, <1>14
<1>17. \A p \in NewPayments : payment'[p].amount <= debt[payment'[p].debt].remaining
  <2>1. \A p \in ids : at[p] \in 1..n
    BY <1>5
  <2> QED
    BY <1>11, <1>13, <1>14, <2>1
<1> QED
  BY <1>15, <1>16, <1>17 DEF req

\* A bulk mark places exactly what was asked for, whatever was confirmed or
\* marked between its snapshot and its locks: no rounding, no rest, no debt
\* paid twice and none beyond what is left of it.
THEOREM BulkMarksPlaceAll == Spec => BulkMarkPlacesAmount
<1> DEFINE Placed(r) ==
      /\ Total([p \in NewPayments |-> payment'[p].amount]) = request[r].amount
      /\ \A p, q \in NewPayments : payment'[p].debt = payment'[q].debt => p = q
      /\ \A p \in NewPayments : payment'[p].amount <= debt[payment'[p].debt].remaining
    Places == \A r \in Requests :
                (request[r].kind = "bulk" /\ request'[r] = Idle /\ NewPayments # {}) => Placed(r)
<1>1. Inv /\ [Next]_vars => [Places]_vars
  <2> SUFFICES ASSUME Inv, Next, NEW r \in Requests,
                      request[r].kind = "bulk", request'[r] = Idle, NewPayments # {}
               PROVE  Placed(r)
    OBVIOUS
  <2>1. request'[r] # request[r] /\ payment' # payment
    BY DEF Idle, NewPayments
  <2>2. request \in [Requests -> {Idle} \cup MarkRequest \cup BulkRequest]
    BY DEF Inv, TypeOK
  <2>3. MarkStep
    BY <2>1 DEF Next, DebtStep, ReviewStep, AcceptDebt, RejectDebt, ReviewRejectedDebt,
                ConfirmPayment, RejectPayment
  <2>4. PICK s \in Requests : MarkCommit(s) \/ BulkMarkCommit(s)
    BY <2>1, <2>3 DEF MarkStep, MarkBegin, BulkMarkBegin, RollBack
  <2>5. s = r
    BY <2>1, <2>2, <2>4 DEF MarkCommit, BulkMarkCommit
  <2>6. BulkMarkCommit(r)
    BY <2>4, <2>5 DEF MarkCommit
  <2> QED
    BY <2>6, BulkMarkPlaces DEF Inv
<1> QED
  BY <1>1, InvAlways, PTL DEF Spec, BulkMarkPlacesAmount

-------------------------------------------------------------------------------
(* The ledger implements the life cycle of a debt. *)

\* An initial state maps to an initial state of the life cycle.
LEMMA InitMaps == Init => Lifecycle!LifecycleInit
<1> SUFFICES ASSUME Init PROVE Lifecycle!LifecycleInit
  OBVIOUS
<1>1. PICK share \in [Debts -> Amounts] :
        debt = [d \in Debts |-> [status |-> "pending", original |-> share[d],
                                 remaining |-> share[d]]]
  BY DEF Init
<1>2. [d \in Debts |-> debt[d].status] = [d \in Debts |-> "pending"]
  BY <1>1
<1>3. [d \in Debts |-> debt[d].original] \in [Debts -> Lifecycle!Amounts]
  BY <1>1 DEF Amounts, Lifecycle!Amounts
<1>4. [d \in Debts |-> debt[d].remaining] = [d \in Debts |-> debt[d].original]
  BY <1>1
<1> QED
  BY <1>2, <1>3, <1>4 DEF Lifecycle!LifecycleInit

\* A step maps to a step of the life cycle, or to a stutter.
LEMMA StepMaps == Inv /\ [Next]_vars => [Lifecycle!LifecycleNext]_(Lifecycle!lifecycleVars)
<1> SUFFICES ASSUME Inv, Next, ~ UNCHANGED debt PROVE Lifecycle!LifecycleNext
  BY DEF vars, Lifecycle!lifecycleVars
<1>1. debt \in [Debts -> DebtRow]
  BY DEF Inv, TypeOK
<1>2. ASSUME NEW d \in Debts, NEW user \in Users,
             AcceptDebt(d, user) \/ RejectDebt(d, user)
      PROVE  Lifecycle!Decide(d)
  <2>1. debt[d].status = "pending"
    BY <1>2 DEF AcceptDebt, RejectDebt
  <2>2. PICK s \in {"accepted", "rejected"} : debt' = [debt EXCEPT ![d].status = s]
    BY <1>2 DEF AcceptDebt, RejectDebt
  <2>3. [e \in Debts |-> debt'[e].status]
          = [[e \in Debts |-> debt[e].status] EXCEPT ![d] = s]
    BY <1>1, <2>2 DEF DebtRow
  <2>4. /\ [e \in Debts |-> debt'[e].original] = [e \in Debts |-> debt[e].original]
        /\ [e \in Debts |-> debt'[e].remaining] = [e \in Debts |-> debt[e].remaining]
    BY <1>1, <2>2 DEF DebtRow
  <2> QED
    BY <2>1, <2>3, <2>4 DEF Lifecycle!Decide
<1>3. ASSUME NEW d \in Debts, NEW user \in Users, NEW amount \in Amounts,
             ReviewRejectedDebt(d, user, amount)
      PROVE  Lifecycle!Resend(d)
  <2>1. debt[d].status = "rejected"
    BY <1>3 DEF ReviewRejectedDebt
  <2>2. debt' = [debt EXCEPT ![d] = [status |-> "pending", original |-> amount,
                                     remaining |-> amount]]
    BY <1>3 DEF ReviewRejectedDebt
  <2>3. /\ [e \in Debts |-> debt'[e].status]
             = [[e \in Debts |-> debt[e].status] EXCEPT ![d] = "pending"]
        /\ [e \in Debts |-> debt'[e].original]
             = [[e \in Debts |-> debt[e].original] EXCEPT ![d] = amount]
        /\ [e \in Debts |-> debt'[e].remaining]
             = [[e \in Debts |-> debt[e].remaining] EXCEPT ![d] = amount]
    BY <1>1, <2>2
  <2>4. amount \in Lifecycle!Amounts
    BY DEF Amounts, Lifecycle!Amounts
  <2> QED
    BY <2>1, <2>3, <2>4 DEF Lifecycle!Resend
<1>4. ASSUME NEW p \in DOMAIN payment, NEW user \in Users, ConfirmPayment(p, user)
      PROVE  \E d \in Debts : Lifecycle!Pay(d)
  <2> PICK d : d = payment[p].debt
    OBVIOUS
  <2> PICK amount : amount = payment[p].amount
    OBVIOUS
  <2>1. /\ d \in Debts
        /\ amount \in 1..debt[d].remaining
        /\ debt' = [debt EXCEPT ![d] = PaidDown(@, amount)]
    BY <1>4, ConfirmMovesAmount
  <2>2. /\ debt[d] \in DebtRow
        /\ debt[d].remaining \in Nat
        /\ debt[d].status \in Lifecycle!Payable
    BY <1>1, <1>4, <2>1, LedgerAssumption
    DEF ConfirmPayment, PayableStatuses, Lifecycle!Payable, DebtRow
  <2> DEFINE verdict == IF amount = debt[d].remaining THEN "settled" ELSE "partially_settled"
  <2> PICK row : row = PaidDown(debt[d], amount)
    OBVIOUS
  <2>3. /\ row.status = verdict
        /\ row.original = debt[d].original
        /\ row.remaining = debt[d].remaining - amount
        /\ debt' = [debt EXCEPT ![d] = row]
    BY <2>1, <2>2 DEF PaidDown, DebtRow
  <2> HIDE DEF verdict
  <2>4. /\ [e \in Debts |-> debt'[e].status]
             = [[e \in Debts |-> debt[e].status] EXCEPT ![d] = verdict]
        /\ [e \in Debts |-> debt'[e].original] = [e \in Debts |-> debt[e].original]
    BY <1>1, <2>1, <2>3
  <2>5. [e \in Debts |-> debt'[e].remaining]
          = [[e \in Debts |-> debt[e].remaining] EXCEPT ![d] = debt[d].remaining - amount]
    BY <1>1, <2>1, <2>3
  <2>6. Lifecycle!Pay(d)
    BY <2>1, <2>2, <2>4, <2>5 DEF Lifecycle!Pay, verdict
  <2> QED
    BY <2>1, <2>6
<1> QED
  BY <1>2, <1>3, <1>4 DEF Next, DebtStep, MarkStep, ReviewStep, MarkBegin, BulkMarkBegin,
     RollBack, MarkCommit, BulkMarkCommit, RejectPayment, Lifecycle!LifecycleNext

\* Whatever requests overlap, each debt follows the diagram of DebtLifecycle.
THEOREM LedgerImplementsLifecycle == Spec => ImplementsLifecycle
<1>1. Init => Lifecycle!LifecycleInit
  BY InitMaps
<1>2. Inv /\ [Next]_vars => [Lifecycle!LifecycleNext]_(Lifecycle!lifecycleVars)
  BY StepMaps
<1> QED
  BY <1>1, <1>2, InvAlways, PTL DEF Spec, ImplementsLifecycle, Lifecycle!LifecycleSpec
===============================================================================
