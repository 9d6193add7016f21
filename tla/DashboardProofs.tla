---------------------------- MODULE DashboardProofs ----------------------------
(***************************************************************************)
(* Theorems about Dashboard: what the totals of a user owe to the ledger,  *)
(* and what the parts of a snapshot owe to each other.  A reader takes no  *)
(* part in the ledger, so the invariants of LedgerProofs hold; a sum of    *)
(* remaining amounts changes in one summand at a time, and the rows of a   *)
(* list add up because each of them counts a part of the debts.            *)
(***************************************************************************)
EXTENDS Dashboard, LedgerProofs

\* What the user owes, debt by debt.
Owed(user) == Remaining(Payable(OwedBy(user)))

\* A reader takes no part in the ledger.
LEMMA ReadersChangeNothing == DashboardSpec => Spec
<1>1. DashboardInit => Init
  BY DEF DashboardInit
<1>2. [DashboardNext]_dashboardVars => [Next]_vars
  BY DEF DashboardNext, Read, ReadTotals, ReadUnsettled, ReadPersons, EndRead, dashboardVars
<1> QED
  BY <1>1, <1>2, PTL DEF DashboardSpec, Spec

\* The debts that the user owes and has accepted.
Owes(user) == {d \in Debts : Debtor[d] = user /\ debt[d].status \in PayableStatuses}

\* The totals of two states as sums of two functions.
LEMMA OwedIs ==
  ASSUME TypeOK, TypeOK', NEW user
  PROVE  \E f, g :
           /\ Totals(user).owed = Total(f) /\ Totals(user)'.owed = Total(g)
           /\ f = [d \in Owes(user) |-> debt[d].remaining]
           /\ g = [d \in Owes(user)' |-> debt'[d].remaining]
           /\ IsFiniteSet(Owes(user)) /\ IsFiniteSet(Owes(user)')
           /\ \A d \in Owes(user) : f[d] \in 0..MaxAmount
           /\ \A d \in Owes(user)' : g[d] \in 0..MaxAmount
<1>1. Payable(OwedBy(user)) = Owes(user)
  BY DEF Payable, OwedBy, Owes
<1>2. Payable(OwedBy(user))' = Owes(user)'
  BY DEF Payable, OwedBy, Owes
<1>3. PICK f : f = [d \in Owes(user) |-> debt[d].remaining]
  OBVIOUS
<1>4. PICK g : g = [d \in Owes(user)' |-> debt'[d].remaining]
  OBVIOUS
<1>5. Totals(user).owed = Total(f)
  BY <1>1, <1>3 DEF Totals, Remaining
<1>6. Totals(user)'.owed = Total(g)
  BY <1>2, <1>4 DEF Totals, Remaining, Total, Units
<1>7. IsFiniteSet(Owes(user)) /\ IsFiniteSet(Owes(user)')
  BY LedgerAssumption, FS_Subset DEF Owes
<1>8. /\ \A d \in Owes(user) : f[d] \in 0..MaxAmount
      /\ \A d \in Owes(user)' : g[d] \in 0..MaxAmount
  BY <1>3, <1>4 DEF TypeOK, DebtRow, Owes
<1> QED
  BY <1>3, <1>4, <1>5, <1>6, <1>7, <1>8

\* A sum without one of its summands.
LEMMA TotalTakesOne ==
  ASSUME NEW f, IsFiniteSet(DOMAIN f), NEW x \in DOMAIN f, f[x] \in 0..MaxAmount
  PROVE  /\ Total(f) \in Nat
         /\ Total([y \in DOMAIN f \ {x} |-> f[y]]) \in Nat
         /\ Total(f) = Total([y \in DOMAIN f \ {x} |-> f[y]]) + f[x]
<1> DEFINE g == [y \in DOMAIN f \ {x} |-> f[y]]
<1>1. /\ DOMAIN g = DOMAIN f \ {x} /\ x \notin DOMAIN g
      /\ DOMAIN f = DOMAIN g \cup {x}
      /\ \A y \in DOMAIN g : f[y] = g[y]
  OBVIOUS
<1>2. IsFiniteSet(DOMAIN g)
  BY <1>1, FS_RemoveElement
<1> HIDE DEF g
<1>3. Total(f) = Total(g) + f[x]
  BY <1>1, <1>2, TotalAddsOne
<1>4. Total(f) \in Nat /\ Total(g) \in Nat
  BY <1>2, TotalIsNat
<1> QED
  BY <1>3, <1>4 DEF g

-------------------------------------------------------------------------------
(* How a step changes what a user owes. *)

\* Nothing that the user owes changes.
LEMMA NothingOwedChanges ==
  ASSUME TypeOK, TypeOK', NEW user, Owes(user)' = Owes(user),
         \A d \in Owes(user) : debt'[d].remaining = debt[d].remaining
  PROVE  Totals(user)'.owed = Totals(user).owed
<1>1. PICK f, g :
        /\ Totals(user).owed = Total(f) /\ Totals(user)'.owed = Total(g)
        /\ f = [d \in Owes(user) |-> debt[d].remaining]
        /\ g = [d \in Owes(user)' |-> debt'[d].remaining]
  BY OwedIs
<1>2. f = g
  BY <1>1
<1> QED
  BY <1>1, <1>2

\* A debt that is accepted adds to what its debtor owes.
LEMMA AcceptanceAdds ==
  ASSUME TypeOK, TypeOK', NEW user, NEW d \in Debts,
         d \notin Owes(user), Owes(user)' = Owes(user) \cup {d},
         \A e \in Owes(user) : debt'[e] = debt[e]
  PROVE  /\ Totals(user).owed \in Nat /\ Totals(user)'.owed \in Nat
         /\ Totals(user)'.owed >= Totals(user).owed
<1>1. PICK f, g :
        /\ Totals(user).owed = Total(f) /\ Totals(user)'.owed = Total(g)
        /\ f = [e \in Owes(user) |-> debt[e].remaining]
        /\ g = [e \in Owes(user)' |-> debt'[e].remaining]
        /\ IsFiniteSet(Owes(user)) /\ IsFiniteSet(Owes(user)')
        /\ \A e \in Owes(user) : f[e] \in 0..MaxAmount
        /\ \A e \in Owes(user)' : g[e] \in 0..MaxAmount
  BY OwedIs
<1>2. /\ DOMAIN f = Owes(user) /\ DOMAIN g = DOMAIN f \cup {d} /\ d \notin DOMAIN f
      /\ \A e \in DOMAIN f : g[e] = f[e]
      /\ IsFiniteSet(DOMAIN f) /\ IsFiniteSet(DOMAIN g)
  <2>1. DOMAIN f = Owes(user) /\ DOMAIN g = Owes(user)'
    BY <1>1
  <2>2. \A e \in Owes(user) : g[e] = f[e]
    <3>1. \A e \in Owes(user) : f[e] = debt[e].remaining
      BY <1>1
    <3>2. \A e \in Owes(user) : e \in Owes(user)' /\ debt'[e].remaining = debt[e].remaining
      OBVIOUS
    <3>3. \A e \in Owes(user) : g[e] = debt'[e].remaining
      BY <1>1, <3>2
    <3> QED
      BY <3>1, <3>2, <3>3
  <2> QED
    BY <1>1, <2>1, <2>2
<1>3. g[d] \in 0..MaxAmount /\ g[d] \in Nat
  <2>1. d \in Owes(user)'
    OBVIOUS
  <2>2. g[d] \in 0..MaxAmount
    BY <1>1, <2>1
  <2> QED
    BY <2>2, LedgerAssumption
<1>4. Total(g) = Total(f) + g[d]
  BY <1>2, <1>3, TotalAddsOne
<1>5. Total(f) \in Nat /\ Total(g) \in Nat
  BY <1>2, TotalIsNat
<1> QED
  BY <1>1, <1>3, <1>4, <1>5

\* A confirmed payment takes its amount from what its debtor owes.
LEMMA PaymentTakes ==
  ASSUME TypeOK, TypeOK', NEW user, NEW d \in Owes(user), NEW amount \in Nat,
         \/ Owes(user)' = Owes(user)
         \/ Owes(user)' = Owes(user) \ {d} /\ debt'[d].remaining = 0,
         \A e \in Owes(user) \ {d} : debt'[e] = debt[e],
         debt'[d].remaining = debt[d].remaining - amount
  PROVE  Totals(user)'.owed = Totals(user).owed - amount
<1>1. PICK f, g :
        /\ Totals(user).owed = Total(f) /\ Totals(user)'.owed = Total(g)
        /\ f = [e \in Owes(user) |-> debt[e].remaining]
        /\ g = [e \in Owes(user)' |-> debt'[e].remaining]
        /\ IsFiniteSet(Owes(user)) /\ IsFiniteSet(Owes(user)')
        /\ \A e \in Owes(user) : f[e] \in 0..MaxAmount
        /\ \A e \in Owes(user)' : g[e] \in 0..MaxAmount
  BY OwedIs
<1>2. PICK rest : rest = [e \in Owes(user) \ {d} |-> debt[e].remaining]
  OBVIOUS
<1>3. Total(rest) \in Nat /\ Total(f) = Total(rest) + debt[d].remaining
  <2>1. DOMAIN f = Owes(user) /\ rest = [e \in DOMAIN f \ {d} |-> f[e]] /\ f[d] = debt[d].remaining
    BY <1>1, <1>2
  <2>2. f[d] \in 0..MaxAmount /\ IsFiniteSet(DOMAIN f)
    BY <1>1, <2>1
  <2>3. Total(rest) \in Nat /\ Total(f) = Total(rest) + f[d]
    BY <2>1, <2>2, TotalTakesOne
  <2> QED
    BY <2>1, <2>3
<1>4. debt[d].remaining \in Nat
  BY LedgerAssumption DEF TypeOK, DebtRow, Owes
<1>5. CASE Owes(user)' = Owes(user)
  <2>1. /\ DOMAIN g = Owes(user) /\ rest = [e \in DOMAIN g \ {d} |-> g[e]]
        /\ g[d] = debt[d].remaining - amount
    BY <1>1, <1>2, <1>5
  <2>2. g[d] \in 0..MaxAmount /\ IsFiniteSet(DOMAIN g)
    BY <1>1, <1>5, <2>1
  <2>3. Total(g) = Total(rest) + g[d]
    BY <2>1, <2>2, TotalTakesOne
  <2> QED
    BY <1>1, <1>3, <1>4, <2>1, <2>3
<1>6. CASE Owes(user)' = Owes(user) \ {d} /\ debt'[d].remaining = 0
  <2>1. g = rest
    BY <1>1, <1>2, <1>6
  <2>2. amount = debt[d].remaining
    BY <1>4, <1>6
  <2> QED
    BY <1>1, <1>3, <1>4, <2>1, <2>2
<1> QED
  BY <1>5, <1>6

\* TotalsFallByConfirmation, for one user.
FallsByConfirmation(user) ==
    Totals(user)'.owed < Totals(user).owed =>
      \E p \in DOMAIN payment :
        /\ payment[p].status = "pending_confirmation"
        /\ payment'[p].status = "confirmed"
        /\ payment[p].paidBy = user
        /\ Totals(user)'.owed = Totals(user).owed - payment[p].amount

LEMMA SameTotalsDoNotFall ==
  ASSUME TypeOK, TypeOK', NEW user, Totals(user)'.owed = Totals(user).owed
  PROVE  FallsByConfirmation(user)
<1>1. PICK f : Totals(user).owed = Total(f) /\ IsFiniteSet(DOMAIN f)
  BY OwedIs
<1>2. Totals(user).owed \in Nat
  BY <1>1, TotalIsNat
<1> QED
  BY <1>2 DEF FallsByConfirmation

LEMMA DebtStepFalls ==
  ASSUME Inv, Inv', DebtStep, NEW user \in Users
  PROVE  FallsByConfirmation(user)
<1>0. TypeOK /\ TypeOK'
  BY DEF Inv
<1>1. PICK d \in Debts, u \in Users :
        \/ AcceptDebt(d, u) \/ RejectDebt(d, u)
        \/ \E amount \in Amounts : ReviewRejectedDebt(d, u, amount)
  BY DEF DebtStep
<1>2. CASE AcceptDebt(d, u)
  <2>1. /\ u = Debtor[d] /\ debt[d].status = "pending"
        /\ debt'[d].status = "accepted" /\ \A e \in Debts \ {d} : debt'[e] = debt[e]
    BY <1>0, <1>2 DEF AcceptDebt, TypeOK, DebtRow
  <2>2. CASE user = u
    <3>1. d \notin Owes(user) /\ Owes(user)' = Owes(user) \cup {d}
      BY <2>1, <2>2 DEF Owes, PayableStatuses
    <3>2. \A e \in Owes(user) : debt'[e] = debt[e]
      BY <2>1, <3>1 DEF Owes
    <3>3. /\ Totals(user).owed \in Nat /\ Totals(user)'.owed \in Nat
          /\ Totals(user)'.owed >= Totals(user).owed
      BY <1>0, <3>1, <3>2, AcceptanceAdds
    <3> QED
      BY <3>3 DEF FallsByConfirmation
  <2>3. CASE user # u
    <3>1. Owes(user)' = Owes(user) /\ \A e \in Owes(user) : debt'[e] = debt[e]
      BY <2>1, <2>3 DEF Owes
    <3> QED
      BY <1>0, <3>1, NothingOwedChanges, SameTotalsDoNotFall
  <2> QED
    BY <2>2, <2>3
<1>3. CASE \/ RejectDebt(d, u)
           \/ \E amount \in Amounts : ReviewRejectedDebt(d, u, amount)
  <2>1. /\ debt[d].status \notin PayableStatuses /\ debt'[d].status \notin PayableStatuses
        /\ \A e \in Debts \ {d} : debt'[e] = debt[e]
    BY <1>0, <1>3 DEF RejectDebt, ReviewRejectedDebt, TypeOK, DebtRow, PayableStatuses
  <2>2. Owes(user)' = Owes(user) /\ \A e \in Owes(user) : debt'[e] = debt[e]
    BY <2>1 DEF Owes
  <2> QED
    BY <1>0, <2>2, NothingOwedChanges, SameTotalsDoNotFall
<1> QED
  BY <1>1, <1>2, <1>3

LEMMA ConfirmationFalls ==
  ASSUME Inv, Inv', NEW p \in DOMAIN payment, NEW u \in Users, ConfirmPayment(p, u),
         NEW user \in Users
  PROVE  FallsByConfirmation(user)
<1>0. TypeOK /\ TypeOK'
  BY DEF Inv
<1>1. PICK d, amount : d = payment[p].debt /\ amount = payment[p].amount
  OBVIOUS
<1>2. /\ d \in Debts /\ amount \in 1..debt[d].remaining
      /\ debt' = [debt EXCEPT ![d] = PaidDown(@, amount)]
  BY <1>1, ConfirmMovesAmount
<1>3. /\ payment[p].status = "pending_confirmation" /\ payment'[p].status = "confirmed"
      /\ debt[d].status \in PayableStatuses
  BY <1>0, <1>1 DEF ConfirmPayment, TypeOK, PaymentRow
<1>4. payment[p].paidBy = Debtor[d]
  BY <1>1 DEF Inv, PaymentFitsDebt
<1>5. debt[d] \in DebtRow /\ debt[d].remaining \in Nat /\ amount \in Nat
  BY <1>0, <1>2, LedgerAssumption DEF TypeOK, DebtRow
<1>6. /\ \A e \in Debts \ {d} : debt'[e] = debt[e]
      /\ debt'[d] = PaidDown(debt[d], amount)
  BY <1>0, <1>2 DEF TypeOK
<1>7. /\ debt'[d].remaining = debt[d].remaining - amount
      /\ debt'[d].status = IF debt[d].remaining - amount = 0 THEN "settled" ELSE "partially_settled"
  BY <1>5, <1>6 DEF PaidDown, DebtRow
<1>8. CASE user = Debtor[d]
  <2>1. d \in Owes(user)
    BY <1>2, <1>3, <1>8 DEF Owes
  <2>2. \/ Owes(user)' = Owes(user)
        \/ Owes(user)' = Owes(user) \ {d} /\ debt'[d].remaining = 0
    <3>1. CASE debt[d].remaining - amount = 0
      BY <1>6, <1>7, <3>1 DEF Owes, PayableStatuses
    <3>2. CASE debt[d].remaining - amount # 0
      BY <1>3, <1>6, <1>7, <3>2 DEF Owes, PayableStatuses
    <3> QED
      BY <3>1, <3>2
  <2>3. \A e \in Owes(user) \ {d} : debt'[e] = debt[e]
    BY <1>6 DEF Owes
  <2>4. Totals(user)'.owed = Totals(user).owed - amount
    BY <1>0, <1>5, <1>7, <2>1, <2>2, <2>3, PaymentTakes
  <2> QED
    BY <1>1, <1>3, <1>4, <1>8, <2>4 DEF FallsByConfirmation
<1>9. CASE user # Debtor[d]
  <2>1. Owes(user)' = Owes(user) /\ \A e \in Owes(user) : debt'[e] = debt[e]
    BY <1>6, <1>9 DEF Owes
  <2> QED
    BY <1>0, <2>1, NothingOwedChanges, SameTotalsDoNotFall
<1> QED
  BY <1>8, <1>9

LEMMA StepFalls ==
  ASSUME Inv, Inv', [Next]_vars, NEW user \in Users
  PROVE  FallsByConfirmation(user)
<1>1. CASE DebtStep
  BY <1>1, DebtStepFalls
<1>2. CASE \E p \in DOMAIN payment, u \in Users : ConfirmPayment(p, u)
  BY <1>2, ConfirmationFalls
<1>3. CASE UNCHANGED debt
  <2>1. TypeOK /\ TypeOK' /\ Owes(user)' = Owes(user)
    BY <1>3 DEF Inv, Owes
  <2> QED
    BY <1>3, <2>1, NothingOwedChanges, SameTotalsDoNotFall
<1>4. MarkStep \/ UNCHANGED vars => UNCHANGED debt
  BY DEF MarkStep, MarkBegin, MarkCommit, BulkMarkBegin, BulkMarkCommit, RollBack, vars
<1>5. ReviewStep => \/ \E p \in DOMAIN payment, u \in Users : ConfirmPayment(p, u)
                    \/ UNCHANGED debt
  BY DEF ReviewStep, RejectPayment
<1> QED
  BY <1>1, <1>2, <1>3, <1>4, <1>5 DEF Next

\* TotalsFallByConfirmation: what a user owes falls only when a creditor confirms his
\* payment, and by that payment's amount.
THEOREM OwedFallsByConfirmation == DashboardSpec => TotalsFallByConfirmation
<1>1. Inv /\ Inv' /\ [Next]_vars => \A user \in Readers : FallsByConfirmation(user)
  BY StepFalls, DashboardAssumption
<1>2. Inv /\ Inv' /\ [Next]_vars =>
        [\A user \in Readers :
           Totals(user)'.owed < Totals(user).owed =>
             \E p \in DOMAIN payment :
               /\ payment[p].status = "pending_confirmation"
               /\ payment'[p].status = "confirmed"
               /\ payment[p].paidBy = user
               /\ Totals(user)'.owed = Totals(user).owed - payment[p].amount]_dashboardVars
  BY <1>1 DEF FallsByConfirmation
<1> QED
  BY <1>2, ReadersChangeNothing, InvAlways, PTL DEF Spec, TotalsFallByConfirmation

-------------------------------------------------------------------------------
(* The three queries agree. *)

\* If every row of a list counts the members of its part of S, and the parts do not
\* overlap and leave nothing out, the list counts S.
LEMMA PartsAddUp ==
  ASSUME NEW S, IsFiniteSet(S), NEW number, NEW part,
         \A row \in DOMAIN number : /\ part[row] \in SUBSET S
                                    /\ number[row] = Cardinality(part[row]),
         \A row, other \in DOMAIN number : \A x \in part[row] \cap part[other] : row = other,
         \A x \in S : \E row \in DOMAIN number : x \in part[row]
  PROVE  SumOf(number) = Cardinality(S)
<1> DEFINE rows == DOMAIN number
           U == UNION {{row} \X (1..number[row]) : row \in rows}
           nth == [row \in rows |-> CHOOSE f : f \in Bijection(1..number[row], part[row])]
           pick == [u \in U |-> nth[u[1]][u[2]]]
<1>1. \A row \in rows : nth[row] \in Bijection(1..number[row], part[row])
  <2> TAKE row \in rows
  <2>1. IsFiniteSet(part[row])
    BY FS_Subset
  <2>2. \E f : f \in Bijection(1..number[row], part[row])
    BY <2>1, FS_CardinalityType DEF ExistsBijection
  <2> QED
    BY <2>2
<1> HIDE DEF nth
<1>2. \A row \in rows :
        /\ \A k \in 1..number[row] : nth[row][k] \in part[row]
        /\ \A k, l \in 1..number[row] : nth[row][k] = nth[row][l] => k = l
        /\ \A x \in part[row] : \E k \in 1..number[row] : nth[row][k] = x
  <2> TAKE row \in rows
  <2>1. PICK f : f = nth[row] /\ f \in Bijection(1..number[row], part[row])
    BY <1>1
  <2> QED
    BY <2>1 DEF Bijection, Injection, Surjection, IsInjective
<1>3. \A u \in U : u[1] \in rows /\ u[2] \in 1..number[u[1]] /\ u = <<u[1], u[2]>>
  OBVIOUS
<1>4. \A row \in rows : \A k \in 1..number[row] : <<row, k>> \in U
  OBVIOUS
<1> HIDE DEF U
<1>5. \A u \in U : pick[u] \in part[u[1]] /\ pick[u] \in S
  BY <1>2, <1>3
<1>6. ASSUME NEW u \in U, NEW v \in U, pick[u] = pick[v] PROVE u = v
  <2>1. pick[u] \in part[u[1]] \cap part[v[1]]
    BY <1>5, <1>6
  <2>2. u[1] = v[1]
    BY <1>3, <2>1
  <2>3. u[2] = v[2]
    BY <1>2, <1>3, <1>6, <2>2
  <2> QED
    BY <1>3, <2>2, <2>3
<1>7. ASSUME NEW x \in S PROVE \E u \in U : pick[u] = x
  <2>1. PICK row \in rows : x \in part[row]
    OBVIOUS
  <2>2. PICK k \in 1..number[row] : nth[row][k] = x
    BY <1>2, <2>1
  <2>3. <<row, k>> \in U
    BY <1>4, <2>2
  <2>4. pick[<<row, k>>] = nth[row][k]
    BY <2>3
  <2> QED
    BY <2>2, <2>3, <2>4
<1>8. pick \in Bijection(U, S)
  <2>1. pick \in [U -> S]
    BY <1>5
  <2> HIDE DEF pick
  <2> QED
    BY <1>6, <1>7, <2>1 DEF Bijection, Injection, Surjection, IsInjective
<1>9. ExistsBijection(S, U)
  <2>1. ExistsBijection(U, S)
    BY <1>8 DEF ExistsBijection
  <2> QED
    BY <2>1, Fun_ExistsBijSymmetric
<1>10. Cardinality(U) = Cardinality(S)
  BY <1>9, FS_Bijection
<1> QED
  BY <1>10 DEF SumOf, U

\* The debts on one side of the user's books, whatever their status.
Side(user, type) ==
    {d \in Debts : IF type = "owed" THEN Debtor[d] = user ELSE Creditor[d] = user}

\* Those that count in the totals, and what is left of them.
Live(user, type) == {d \in Side(user, type) : debt[d].status \in PayableStatuses}
Left(user, type) == [d \in Live(user, type) |-> debt[d].remaining]

LEMMA TotalsAre ==
  ASSUME NEW user
  PROVE  /\ Totals(user).owed = Total(Left(user, "owed"))
         /\ Totals(user).owedCount = Cardinality(Live(user, "owed"))
         /\ Totals(user).receivable = Total(Left(user, "receivable"))
         /\ Totals(user).receivableCount = Cardinality(Live(user, "receivable"))
<1>1. Live(user, "owed") = Payable(OwedBy(user))
  BY DEF Live, Side, Payable, OwedBy
<1>2. Live(user, "receivable") = Payable(OwedTo(user))
  BY DEF Live, Side, Payable, OwedTo
<1> QED
  BY <1>1, <1>2 DEF Totals, Left, Remaining

LEMMA LiveFinite ==
  ASSUME NEW user, NEW type
  PROVE  IsFiniteSet(Live(user, type)) /\ IsFiniteSet(Units(Left(user, type)))
<1>1. IsFiniteSet(Live(user, type))
  BY LedgerAssumption, FS_Subset DEF Live, Side
<1>2. DOMAIN Left(user, type) = Live(user, type)
  BY DEF Left
<1> QED
  BY <1>1, <1>2, TotalIsNat

\* Those of them that are between the user and one other person.
Between(user, type, other) == {d \in Live(user, type) : OtherFor(user, d) = other}

\* The debts with the same other person are those of one row.
LEMMA PersonDebtsAre ==
  ASSUME Inv, NEW user, NEW type \in Directions, NEW other
  PROVE  /\ PersonDebts(user, type, other) = Between(user, type, other)
         /\ \A d \in Live(user, type) : /\ TypeFor(user, d) = type
                                        /\ debt[d].remaining > 0
                                        /\ d \in Payable(OwedBy(user) \cup OwedTo(user))
<1>1. \A d \in Debts : debt[d].status \in PayableStatuses => debt[d].remaining > 0
  BY LedgerAssumption DEF Inv, TypeOK, DebtRow, StatusTellsRemaining, PayableStatuses
<1>2. \A d \in Live(user, type) : /\ TypeFor(user, d) = type
                                  /\ debt[d].remaining > 0
                                  /\ d \in Payable(OwedBy(user) \cup OwedTo(user))
  BY <1>1, LedgerAssumption
     DEF Live, Side, TypeFor, Payable, OwedBy, OwedTo, Directions
<1>3. \A d \in Payable(OwedBy(user) \cup OwedTo(user)) :
        TypeFor(user, d) = type => d \in Live(user, type)
  BY DEF Live, Side, TypeFor, Payable, OwedBy, OwedTo, Directions
<1> QED
  BY <1>2, <1>3 DEF PersonDebts, Between

\* What the rows of one direction say, and which debts each stands for.
LEMMA RowsAre ==
  ASSUME Inv, NEW user, NEW type \in Directions
  PROVE  LET rows == OfType(PersonBalances(user), type)
         IN  /\ \A row \in rows : row = PersonBalance(user, type, row.other)
             /\ \A d \in Live(user, type) :
                  PersonBalance(user, type, OtherFor(user, d)) \in rows
<1>1. \A t, other : /\ PersonBalance(user, t, other).type = t
                    /\ PersonBalance(user, t, other).other = other
  BY DEF PersonBalance
<1>2. \A row \in OfType(PersonBalances(user), type) : row = PersonBalance(user, type, row.other)
  <2> TAKE row \in OfType(PersonBalances(user), type)
  <2>1. PICK d : row = PersonBalance(user, TypeFor(user, d), OtherFor(user, d))
    BY DEF OfType, PersonBalances
  <2>2. row.type = type
    BY DEF OfType
  <2> QED
    BY <1>1, <2>1, <2>2
<1>3. \A d \in Live(user, type) :
        PersonBalance(user, type, OtherFor(user, d)) \in OfType(PersonBalances(user), type)
  <2> TAKE d \in Live(user, type)
  <2>1. d \in {e \in Payable(OwedBy(user) \cup OwedTo(user)) : debt[e].remaining > 0}
        /\ TypeFor(user, d) = type
    BY PersonDebtsAre
  <2>2. PersonBalance(user, type, OtherFor(user, d)) \in PersonBalances(user)
    BY <2>1 DEF PersonBalances
  <2> QED
    BY <1>1, <2>2 DEF OfType
<1> QED
  BY <1>2, <1>3

\* The rows of one direction add up to the amounts and the number of its debts.
LEMMA RowsAddUp ==
  ASSUME Inv, NEW user, NEW type \in Directions
  PROVE  /\ SumOf(AmountsIn(OfType(PersonBalances(user), type))) = Total(Left(user, type))
         /\ SumOf(CountsIn(OfType(PersonBalances(user), type)))
              = Cardinality(Live(user, type))
<1> DEFINE rows == OfType(PersonBalances(user), type)
           with(other) == Between(user, type, other)
           left(other) == [d \in with(other) |-> debt[d].remaining]
           debts == [row \in rows |-> with(row.other)]
           units == [row \in rows |-> Units(left(row.other))]
<1>1. \A row \in rows : /\ row = PersonBalance(user, type, row.other)
                        /\ row.count = Cardinality(with(row.other))
                        /\ row.amount = Total(left(row.other))
  <2> TAKE row \in rows
  <2>1. row = PersonBalance(user, type, row.other)
    BY RowsAre
  <2>2. PICK other : other = row.other
    OBVIOUS
  <2>3. PersonDebts(user, type, other) = with(other)
    BY PersonDebtsAre
  <2>4. /\ PersonBalance(user, type, other).count = Cardinality(with(other))
        /\ PersonBalance(user, type, other).amount = Total(left(other))
    BY <2>3 DEF PersonBalance, Remaining
  <2> QED
    BY <2>1, <2>2, <2>4
<1>2. \A row, other \in rows : row.other = other.other => row = other
  BY <1>1
<1>3. \A d \in Live(user, type) : \E row \in rows : row.other = OtherFor(user, d)
  <2> TAKE d \in Live(user, type)
  <2>1. PersonBalance(user, type, OtherFor(user, d)) \in rows
    BY RowsAre
  <2>2. PersonBalance(user, type, OtherFor(user, d)).other = OtherFor(user, d)
    BY DEF PersonBalance
  <2> QED
    BY <2>1, <2>2
<1> HIDE DEF rows
<1>4. SumOf(CountsIn(rows)) = Cardinality(Live(user, type))
  <2>1. PICK number : number = CountsIn(rows)
    OBVIOUS
  <2>2. DOMAIN number = rows /\ \A row \in rows : number[row] = row.count
    BY <2>1 DEF CountsIn
  <2>3. PICK part : part = debts
    OBVIOUS
  <2>4. \A row \in rows : part[row] = with(row.other)
    BY <2>3
  <2>5. \A row \in DOMAIN number : /\ part[row] \in SUBSET Live(user, type)
                                   /\ number[row] = Cardinality(part[row])
    BY <1>1, <2>2, <2>4 DEF Between
  <2>6. \A row, other \in DOMAIN number : \A d \in part[row] \cap part[other] : row = other
    BY <1>2, <2>2, <2>4 DEF Between
  <2>7. \A d \in Live(user, type) : \E row \in DOMAIN number : d \in part[row]
    BY <1>3, <2>2, <2>4 DEF Between
  <2>8. SumOf(number) = Cardinality(Live(user, type))
    BY <2>5, <2>6, <2>7, LiveFinite, PartsAddUp
  <2> QED
    BY <2>1, <2>8
<1>5. SumOf(AmountsIn(rows)) = Cardinality(Units(Left(user, type)))
  <2>1. PICK number : number = AmountsIn(rows)
    OBVIOUS
  <2>2. DOMAIN number = rows /\ \A row \in rows : number[row] = row.amount
    BY <2>1 DEF AmountsIn
  <2>3. PICK part : part = units
    OBVIOUS
  <2>4. \A row \in rows : part[row] = Units(left(row.other))
    BY <2>3
  <2>5. \A other : Units(left(other)) = {u \in Units(Left(user, type)) : OtherFor(user, u[1]) = other}
    BY DEF Between, Units, Left
  <2> HIDE DEF left, with
  <2>6. \A row \in DOMAIN number : /\ part[row] \in SUBSET Units(Left(user, type))
                                   /\ number[row] = Cardinality(part[row])
    BY <1>1, <2>2, <2>4, <2>5 DEF Total
  <2>7. \A row, other \in DOMAIN number : \A u \in part[row] \cap part[other] : row = other
    BY <1>2, <2>2, <2>4, <2>5
  <2>8. \A u \in Units(Left(user, type)) : u[1] \in Live(user, type)
    BY DEF Units, Left
  <2>9. \A u \in Units(Left(user, type)) : \E row \in DOMAIN number : u \in part[row]
    BY <1>3, <2>2, <2>4, <2>5, <2>8
  <2>10. SumOf(number) = Cardinality(Units(Left(user, type)))
    BY <2>6, <2>7, <2>9, LiveFinite, PartsAddUp
  <2> QED
    BY <2>1, <2>10
<1> QED
  BY <1>4, <1>5 DEF rows, Total

\* QueriesAgree: the three queries of a snapshot agree whenever they see the same
\* rows, whatever has happened to the ledger before.
THEOREM QueriesAlwaysAgree == DashboardSpec => []QueriesAgree
<1>1. Inv => QueriesAgree
  <2> SUFFICES ASSUME Inv, NEW user \in Readers
               PROVE
        /\ SumOf(AmountsIn(OfType(PersonBalances(user), "owed"))) = Totals(user).owed
        /\ SumOf(CountsIn(OfType(PersonBalances(user), "owed"))) = Totals(user).owedCount
        /\ SumOf(AmountsIn(OfType(PersonBalances(user), "receivable"))) = Totals(user).receivable
        /\ SumOf(CountsIn(OfType(PersonBalances(user), "receivable")))
             = Totals(user).receivableCount
        /\ Payable(OwedBy(user) \cup OwedTo(user)) \subseteq Previewable(user)
    BY DEF QueriesAgree
  <2>1. "owed" \in Directions /\ "receivable" \in Directions
    BY DEF Directions
  <2>2. Payable(OwedBy(user) \cup OwedTo(user)) \subseteq Previewable(user)
    BY LedgerAssumption
       DEF Inv, TypeOK, DebtRow, StatusTellsRemaining, PayableStatuses, Payable, Previewable,
           OwedBy, OwedTo
  <2> QED
    BY <2>1, <2>2, RowsAddUp, TotalsAre
<1> QED
  BY <1>1, ReadersChangeNothing, InvAlways, PTL

-------------------------------------------------------------------------------
(* Snapshots whose parts were read at different times. *)

\* A sum is not above one with more and larger summands.
LEMMA TotalGrows ==
  ASSUME NEW f, NEW g, IsFiniteSet(DOMAIN g), DOMAIN f \subseteq DOMAIN g,
         \A x \in DOMAIN f : f[x] \in Nat /\ g[x] \in Nat /\ f[x] <= g[x]
  PROVE  Total(f) \in Nat /\ Total(g) \in Nat /\ Total(f) <= Total(g)
<1>1. \A u \in Units(f) : u \in Units(g)
  BY LedgerAssumption DEF Units, Amounts
<1>2. IsFiniteSet(Units(g)) /\ Total(g) \in Nat
  BY TotalIsNat
<1>3. IsFiniteSet(DOMAIN f)
  BY FS_Subset
<1> QED
  BY <1>1, <1>2, <1>3, TotalIsNat, FS_Subset DEF Total

\* A step of the ledger accepts one debt, or it makes no debt payable, leaves no
\* more of those that are, and touches no original amount of an accepted debt.
LEMMA StepTakes ==
  ASSUME Inv, Inv', [Next]_vars
  PROVE  \/ \E d \in Debts :
              /\ debt[d].status = "pending" /\ debt[d].remaining = debt[d].original
              /\ debt'[d].status = "accepted"
              /\ debt'[d].original = debt[d].original
              /\ debt'[d].remaining = debt[d].remaining
              /\ \A e \in Debts \ {d} : debt'[e] = debt[e]
         \/ \A d \in Debts :
              /\ debt'[d].status \in PayableStatuses =>
                   debt[d].status \in PayableStatuses /\ debt'[d].remaining <= debt[d].remaining
              /\ debt'[d].status \notin {"pending", "rejected"} <=>
                   debt[d].status \notin {"pending", "rejected"}
              /\ debt[d].status \notin {"pending", "rejected"} =>
                   debt'[d].original = debt[d].original
<1>0. TypeOK /\ TypeOK' /\ \A d \in Debts : debt[d].remaining \in Nat
  BY LedgerAssumption DEF Inv, TypeOK, DebtRow
<1>1. CASE UNCHANGED debt
  BY <1>0, <1>1
<1>2. CASE \E p \in DOMAIN payment, u \in Users : ConfirmPayment(p, u)
  <2>1. PICK p \in DOMAIN payment, u \in Users : ConfirmPayment(p, u)
    BY <1>2
  <2>2. PICK d, amount : d = payment[p].debt /\ amount = payment[p].amount
    OBVIOUS
  <2>3. /\ d \in Debts /\ amount \in 1..debt[d].remaining
        /\ debt' = [debt EXCEPT ![d] = PaidDown(@, amount)]
    BY <2>1, <2>2, ConfirmMovesAmount
  <2>4. debt[d].status \in PayableStatuses
    BY <2>1, <2>2 DEF ConfirmPayment
  <2>5. /\ \A e \in Debts \ {d} : debt'[e] = debt[e]
        /\ debt'[d] = PaidDown(debt[d], amount) /\ debt[d] \in DebtRow
    BY <1>0, <2>3 DEF TypeOK
  <2>6. /\ debt'[d].remaining = debt[d].remaining - amount
        /\ debt'[d].original = debt[d].original
        /\ debt'[d].status \in {"settled", "partially_settled"}
    BY <2>5 DEF PaidDown, DebtRow
  <2>7. amount \in Nat /\ debt'[d].remaining <= debt[d].remaining
    BY <1>0, <2>3, <2>6
  <2> QED
    BY <1>0, <2>4, <2>5, <2>6, <2>7 DEF PayableStatuses
<1>3. CASE DebtStep
  <2>1. PICK d \in Debts, u \in Users :
          \/ AcceptDebt(d, u) \/ RejectDebt(d, u)
          \/ \E amount \in Amounts : ReviewRejectedDebt(d, u, amount)
    BY <1>3 DEF DebtStep
  <2>2. CASE AcceptDebt(d, u)
    <3>1. /\ debt[d].status = "pending"
          /\ debt'[d] = [debt[d] EXCEPT !.status = "accepted"] /\ debt[d] \in DebtRow
          /\ \A e \in Debts \ {d} : debt'[e] = debt[e]
      BY <1>0, <2>2 DEF AcceptDebt, TypeOK
    <3>2. /\ debt'[d].status = "accepted"
          /\ debt'[d].original = debt[d].original /\ debt'[d].remaining = debt[d].remaining
      BY <3>1 DEF DebtRow
    <3>3. debt[d].remaining = debt[d].original
      BY <3>1, RemainingWithinOriginal
    <3> QED
      BY <3>1, <3>2, <3>3
  <2>3. CASE \/ RejectDebt(d, u)
             \/ \E amount \in Amounts : ReviewRejectedDebt(d, u, amount)
    <3>1. /\ debt[d].status \in {"pending", "rejected"}
          /\ debt'[d].status \in {"pending", "rejected"}
          /\ \A e \in Debts \ {d} : debt'[e] = debt[e]
      BY <1>0, <2>3 DEF RejectDebt, ReviewRejectedDebt, TypeOK, DebtRow
    <3> QED
      BY <1>0, <3>1 DEF PayableStatuses
  <2> QED
    BY <2>1, <2>2, <2>3
<1>4. MarkStep \/ UNCHANGED vars => UNCHANGED debt
  BY DEF MarkStep, MarkBegin, MarkCommit, BulkMarkBegin, BulkMarkCommit, RollBack, vars
<1>5. ReviewStep => \/ \E p \in DOMAIN payment, u \in Users : ConfirmPayment(p, u)
                    \/ UNCHANGED debt
  BY DEF ReviewStep, RejectPayment
<1> QED
  BY <1>1, <1>2, <1>3, <1>4, <1>5 DEF Next

\* The debts on one side of a user's books that were accepted after those of a set,
\* and what they were entered for.
Newer(user, type, taken) == {d \in Side(user, type) \cap Taken : d \notin taken}
Entered(user, type, taken) == [d \in Newer(user, type, taken) |-> debt[d].original]

\* What is left of the debts of one side grows by acceptances alone: by at most as
\* much as was entered for the debts that the step accepts.
LEMMA StepAdds ==
  ASSUME Inv, Inv', [Next]_vars, NEW user, NEW type \in Directions,
         NEW taken, taken \subseteq Taken
  PROVE  \E before, after, old, new \in Nat :
           /\ before = Total(Left(user, type)) /\ after = Total(Left(user, type))'
           /\ old = Total(Entered(user, type, taken)) /\ new = Total(Entered(user, type, taken))'
           /\ old <= new
           /\ after + old <= before + new
<1>0. TypeOK /\ TypeOK'
  BY DEF Inv
<1>1. PICK f, g : /\ f = [d \in Live(user, type) |-> debt[d].remaining]
                  /\ g = [d \in Live(user, type)' |-> debt'[d].remaining]
  OBVIOUS
<1>2. PICK s, t : /\ s = [d \in Newer(user, type, taken) |-> debt[d].original]
                  /\ t = [d \in Newer(user, type, taken)' |-> debt'[d].original]
  OBVIOUS
<1>3. /\ Total(Left(user, type)) = Total(f) /\ Total(Left(user, type))' = Total(g)
      /\ Total(Entered(user, type, taken)) = Total(s)
      /\ Total(Entered(user, type, taken))' = Total(t)
  BY <1>1, <1>2 DEF Left, Entered, Total, Units
<1>4. /\ IsFiniteSet(DOMAIN f) /\ IsFiniteSet(DOMAIN g)
      /\ IsFiniteSet(DOMAIN s) /\ IsFiniteSet(DOMAIN t)
  <2>1. /\ DOMAIN f \in SUBSET Debts /\ DOMAIN g \in SUBSET Debts
        /\ DOMAIN s \in SUBSET Debts /\ DOMAIN t \in SUBSET Debts
    BY <1>1, <1>2 DEF Live, Side, Newer
  <2> QED
    BY <2>1, LedgerAssumption, FS_Subset
<1>5. Total(f) \in Nat /\ Total(g) \in Nat /\ Total(s) \in Nat /\ Total(t) \in Nat
  BY <1>4, TotalIsNat
<1>6. \A d \in Debts : /\ debt[d].remaining \in 0..MaxAmount /\ debt'[d].remaining \in 0..MaxAmount
                       /\ debt[d].original \in 0..MaxAmount /\ debt'[d].original \in 0..MaxAmount
  BY <1>0, LedgerAssumption DEF TypeOK, DebtRow, Amounts
<1>7. Total(s) <= Total(t) /\ Total(g) + Total(s) <= Total(f) + Total(t)
  <2>1. CASE \E d \in Debts :
              /\ debt[d].status = "pending" /\ debt[d].remaining = debt[d].original
              /\ debt'[d].status = "accepted"
              /\ debt'[d].original = debt[d].original
              /\ debt'[d].remaining = debt[d].remaining
              /\ \A e \in Debts \ {d} : debt'[e] = debt[e]
    <3>1. PICK d \in Debts :
              /\ debt[d].status = "pending" /\ debt[d].remaining = debt[d].original
              /\ debt'[d].status = "accepted"
              /\ debt'[d].original = debt[d].original
              /\ debt'[d].remaining = debt[d].remaining
              /\ \A e \in Debts \ {d} : debt'[e] = debt[e]
      BY <2>1
    <3>2. CASE d \in Side(user, type)
      <4>1. d \notin DOMAIN f /\ DOMAIN g = DOMAIN f \cup {d}
        BY <1>1, <3>1, <3>2 DEF Live, Side, PayableStatuses
      <4>2. d \notin DOMAIN s /\ DOMAIN t = DOMAIN s \cup {d}
        BY <1>2, <3>1, <3>2 DEF Newer, Side, Taken
      <4>3. \A e \in DOMAIN f : g[e] = f[e]
        BY <1>1, <3>1, <4>1 DEF Live, Side
      <4>4. \A e \in DOMAIN s : t[e] = s[e]
        BY <1>2, <3>1, <4>2 DEF Newer, Side
      <4>5. g[d] = t[d] /\ g[d] \in 0..MaxAmount
        BY <1>1, <1>2, <1>6, <3>1, <4>1, <4>2
      <4>6. Total(g) = Total(f) + g[d]
        BY <1>4, <4>1, <4>3, <4>5, TotalAddsOne
      <4>7. Total(t) = Total(s) + t[d]
        BY <1>4, <4>2, <4>4, <4>5, TotalAddsOne
      <4> QED
        BY <1>5, <4>5, <4>6, <4>7, LedgerAssumption
    <3>3. CASE d \notin Side(user, type)
      <4>1. f = g
        BY <1>1, <3>1, <3>3 DEF Live, Side
      <4>2. s = t
        BY <1>2, <3>1, <3>3 DEF Newer, Side, Taken
      <4> QED
        BY <1>5, <4>1, <4>2
    <3> QED
      BY <3>2, <3>3
  <2>2. CASE \A d \in Debts :
              /\ debt'[d].status \in PayableStatuses =>
                   debt[d].status \in PayableStatuses /\ debt'[d].remaining <= debt[d].remaining
              /\ debt'[d].status \notin {"pending", "rejected"} <=>
                   debt[d].status \notin {"pending", "rejected"}
              /\ debt[d].status \notin {"pending", "rejected"} =>
                   debt'[d].original = debt[d].original
    <3>1. DOMAIN g \subseteq DOMAIN f
      BY <1>1, <2>2 DEF Live, Side
    <3>2. \A d \in DOMAIN g : g[d] \in Nat /\ f[d] \in Nat /\ g[d] <= f[d]
      BY <1>1, <1>6, <2>2, <3>1, LedgerAssumption DEF Live, Side
    <3>3. s = t
      BY <1>2, <2>2 DEF Newer, Side, Taken
    <3>4. Total(g) <= Total(f)
      BY <1>4, <3>1, <3>2, TotalGrows
    <3> QED
      BY <1>5, <3>3, <3>4
  <2> QED
    BY <2>1, <2>2, StepTakes
<1> QED
  BY <1>3, <1>5, <1>7

\* The preview's accepted debts of one direction, in an answer.
PreviewIn(answer, type) ==
    [d \in {d \in DOMAIN answer.preview :
              /\ answer.preview[d].type = type
              /\ answer.preview[d].status \in PayableStatuses} |->
       answer.preview[d].remaining]

PersonsIn(answer, type) == SumOf(AmountsIn(OfType(answer.persons, type)))

\* The totals of an answer and what was entered for the debts accepted since.
Bound(answer, type) ==
    answer.totals[type] + Total(Entered(answer.user, type, answer.taken))

\* What holds of an answer under way.  The first bound is what makes the others hold:
\* the ledger itself never runs ahead of the totals by more than it has accepted.
AnswerOK(answer) ==
    /\ answer.user \in Readers
    /\ answer.taken \subseteq Taken
    /\ \A type \in Directions :
         /\ answer.totals[type] \in Nat
         /\ Total(Left(answer.user, type)) <= Bound(answer, type)
         /\ answer.stage \in {"persons", "done"} =>
              /\ Total(PreviewIn(answer, type)) \in Nat
              /\ Total(PreviewIn(answer, type)) <= Bound(answer, type)
         /\ answer.stage = "done" =>
              /\ PersonsIn(answer, type) \in Nat
              /\ PersonsIn(answer, type) <= Bound(answer, type)

\* The answer is named, so that it is the same one before and after a step.
ReaderOK ==
    \E answer : /\ answer = reader
                /\ answer = NoReader \/ AnswerOK(answer)

LEMMA BoundIsLimit ==
  ASSUME NEW type \in Directions
  PROVE  Limit(type) = Bound(reader, type)
<1>1. AcceptedSince(type) = Newer(reader.user, type, reader.taken)
  BY LedgerAssumption DEF AcceptedSince, Newer, Side, TypeFor, Taken, Directions
<1> QED
  BY <1>1 DEF Limit, Bound, Entered

\* The sums that the bounds are about are numbers.
LEMMA SumsAreNat ==
  ASSUME NEW user, NEW type, NEW taken
  PROVE  /\ IsFiniteSet(DOMAIN Left(user, type)) /\ Total(Left(user, type)) \in Nat
         /\ Total(Entered(user, type, taken)) \in Nat
<1>1. DOMAIN Left(user, type) \in SUBSET Debts /\ DOMAIN Entered(user, type, taken) \in SUBSET Debts
  BY DEF Left, Live, Side, Entered, Newer
<1> QED
  BY <1>1, LedgerAssumption, FS_Subset, TotalIsNat

\* A reader's step leaves the books as they are.
LEMMA SameBooks ==
  ASSUME UNCHANGED vars, NEW user, NEW type, NEW taken
  PROVE  /\ Total(Left(user, type))' = Total(Left(user, type))
         /\ Total(Entered(user, type, taken))' = Total(Entered(user, type, taken))
         /\ Taken' = Taken
BY DEF vars, Left, Live, Total, Units, Entered, Newer, Taken

LEMMA LedgerStepKeepsAnswer ==
  ASSUME Inv, Inv', [Next]_vars, NEW answer, AnswerOK(answer)
  PROVE  AnswerOK(answer)'
<1>1. answer.taken \subseteq Taken'
  <2>1. answer.taken \subseteq Taken
    BY DEF AnswerOK
  <2>2. Taken \subseteq Taken'
    BY StepTakes DEF Taken
  <2> QED
    BY <2>1, <2>2
<1>2. ASSUME NEW type \in Directions
      PROVE  /\ answer.totals[type] \in Nat
             /\ Total(Left(answer.user, type))' <= Bound(answer, type)'
             /\ answer.stage \in {"persons", "done"} =>
                  /\ Total(PreviewIn(answer, type)) \in Nat
                  /\ Total(PreviewIn(answer, type)) <= Bound(answer, type)'
             /\ answer.stage = "done" =>
                  /\ PersonsIn(answer, type) \in Nat
                  /\ PersonsIn(answer, type) <= Bound(answer, type)'
  <2>1. answer.taken \subseteq Taken
    BY DEF AnswerOK
  <2>2. PICK before \in Nat, after \in Nat, old \in Nat, new \in Nat :
           /\ before = Total(Left(answer.user, type)) /\ after = Total(Left(answer.user, type))'
           /\ old = Total(Entered(answer.user, type, answer.taken))
           /\ new = Total(Entered(answer.user, type, answer.taken))'
           /\ old <= new
           /\ after + old <= before + new
    BY <2>1, StepAdds
  <2>3. PICK total \in Nat : total = answer.totals[type]
    BY DEF AnswerOK
  <2>4. Bound(answer, type) = total + old /\ Bound(answer, type)' = total + new
    BY <2>2, <2>3 DEF Bound
  <2>5. /\ before <= total + old
        /\ answer.stage \in {"persons", "done"} =>
             /\ Total(PreviewIn(answer, type)) \in Nat
             /\ Total(PreviewIn(answer, type)) <= total + old
        /\ answer.stage = "done" =>
             /\ PersonsIn(answer, type) \in Nat
             /\ PersonsIn(answer, type) <= total + old
    BY <2>2, <2>4 DEF AnswerOK
  <2>6. after <= total + new /\ \A k \in Nat : k <= total + old => k <= total + new
    BY <2>2, <2>5
  <2> QED
    BY <2>2, <2>3, <2>4, <2>5, <2>6
<1>3. /\ \A type : Total(PreviewIn(answer, type))' = Total(PreviewIn(answer, type))
      /\ \A type : PersonsIn(answer, type)' = PersonsIn(answer, type)
  BY DEF PreviewIn, PersonsIn, Total, Units, SumOf, AmountsIn, OfType
<1> QED
  BY <1>1, <1>2, <1>3 DEF AnswerOK

\* A reader that changes nothing else keeps what the answer already has, and the part
\* that it adds fits the books of that moment.
LEMMA ReadKeepsAnswer ==
  ASSUME Inv, UNCHANGED vars, NEW answer, AnswerOK(answer), NEW next,
         next.user = answer.user, next.taken = answer.taken, next.totals = answer.totals,
         next.stage \in {"persons", "done"},
         \A type \in Directions :
           \/ /\ Total(PreviewIn(next, type)) \in Nat
              /\ Total(PreviewIn(next, type)) <= Total(Left(answer.user, type))
           \/ /\ answer.stage \in {"persons", "done"}
              /\ next.preview = answer.preview,
         next.stage = "done" =>
           \A type \in Directions : PersonsIn(next, type) = Total(Left(answer.user, type))
  PROVE  AnswerOK(next)'
<1>1. /\ next.user \in Readers /\ next.taken \subseteq Taken'
      /\ \A type \in Directions : next.totals[type] \in Nat
  BY SameBooks DEF AnswerOK
<1>2. ASSUME NEW type \in Directions
      PROVE  /\ Total(Left(next.user, type))' <= Bound(next, type)'
             /\ Total(PreviewIn(next, type)) \in Nat
             /\ Total(PreviewIn(next, type)) <= Bound(next, type)'
             /\ next.stage = "done" =>
                  /\ PersonsIn(next, type) \in Nat
                  /\ PersonsIn(next, type) <= Bound(next, type)'
  <2>1. PICK left \in Nat, old \in Nat, total \in Nat :
          /\ left = Total(Left(answer.user, type))
          /\ old = Total(Entered(answer.user, type, answer.taken))
          /\ total = answer.totals[type]
    BY SumsAreNat DEF AnswerOK
  <2>2. /\ Bound(answer, type) = total + old
        /\ Bound(next, type)' = total + old
        /\ Total(Left(next.user, type))' = left
    <3>1. /\ Total(Left(answer.user, type))' = left
          /\ Total(Entered(answer.user, type, answer.taken))' = old
      BY <2>1, SameBooks
    <3>2. /\ Bound(answer, type) = total + old
          /\ Bound(answer, type)' = total + old
      BY <2>1, <3>1 DEF Bound
    <3>3. Bound(next, type)' = Bound(answer, type)'
      BY DEF Bound
    <3>4. Total(Left(next.user, type))' = Total(Left(answer.user, type))'
      OBVIOUS
    <3> QED
      BY <3>1, <3>2, <3>3, <3>4
  <2>3. left <= total + old
    BY <2>1, <2>2 DEF AnswerOK
  <2>4. Total(PreviewIn(next, type)) \in Nat /\ Total(PreviewIn(next, type)) <= total + old
    <3>1. CASE /\ Total(PreviewIn(next, type)) \in Nat
               /\ Total(PreviewIn(next, type)) <= Total(Left(answer.user, type))
      BY <2>1, <2>3, <3>1
    <3>2. CASE answer.stage \in {"persons", "done"} /\ next.preview = answer.preview
      <4>1. PreviewIn(next, type) = PreviewIn(answer, type)
        BY <3>2 DEF PreviewIn
      <4> QED
        BY <2>2, <3>2, <4>1 DEF AnswerOK
    <3> QED
      BY <3>1, <3>2
  <2>5. next.stage = "done" => PersonsIn(next, type) = left
    BY <2>1
  <2> QED
    BY <2>2, <2>3, <2>4, <2>5
<1>3. /\ \A type : Total(PreviewIn(next, type))' = Total(PreviewIn(next, type))
      /\ \A type : PersonsIn(next, type)' = PersonsIn(next, type)
  BY DEF PreviewIn, PersonsIn, Total, Units, SumOf, AmountsIn, OfType
<1> QED
  BY <1>1, <1>2, <1>3 DEF AnswerOK

LEMMA TotalsRead ==
  ASSUME Inv, NEW user \in Readers, ReadTotals(user)
  PROVE  ReaderOK'
<1>1. PICK answer : /\ answer = reader' /\ answer.stage = "list" /\ answer.user = user
                    /\ answer.totals = Totals(user) /\ answer.taken = Taken
  BY DEF ReadTotals
<1>2. UNCHANGED vars
  BY DEF ReadTotals
<1>3. ASSUME NEW type \in Directions
      PROVE  /\ answer.totals[type] \in Nat
             /\ Total(Left(user, type))' <= Bound(answer, type)'
  <2>1. Totals(user)[type] = Total(Left(user, type))
    BY TotalsAre DEF Totals, Directions
  <2>2. PICK left \in Nat : left = Total(Left(user, type))
    BY SumsAreNat
  <2>3. PICK new \in Nat : new = Total(Entered(user, type, answer.taken))
    BY SumsAreNat
  <2>4. Total(Left(user, type))' = left /\ Total(Entered(user, type, answer.taken))' = new
    BY <1>2, <2>2, <2>3, SameBooks
  <2>5. Bound(answer, type)' = left + new
    BY <1>1, <2>1, <2>2, <2>4 DEF Bound
  <2> QED
    BY <1>1, <2>1, <2>2, <2>4, <2>5
<1>4. Taken' = Taken
  BY <1>2, SameBooks
<1>5. AnswerOK(answer)'
  BY <1>1, <1>3, <1>4 DEF AnswerOK
<1> QED
  BY <1>1, <1>5 DEF ReaderOK

LEMMA UnsettledRead ==
  ASSUME Inv, ReaderOK, ReadUnsettled
  PROVE  ReaderOK'
<1>1. PICK answer : answer = reader /\ answer.stage = "list" /\ AnswerOK(answer)
  BY DEF ReaderOK, ReadUnsettled, NoReader
<1>2. PICK ds \in Previews(answer.user), next \in {reader'} :
        /\ next = reader'
        /\ next = [stage |-> "persons", user |-> answer.user, totals |-> answer.totals,
                   taken |-> answer.taken,
                   preview |-> [d \in ds |-> [type |-> TypeFor(answer.user, d),
                                              status |-> debt[d].status,
                                              remaining |-> debt[d].remaining]]]
  BY <1>1 DEF ReadUnsettled
<1>3. /\ next.stage = "persons" /\ next.user = answer.user /\ next.taken = answer.taken
      /\ next.totals = answer.totals /\ DOMAIN next.preview = ds
      /\ \A d \in ds : /\ next.preview[d].type = TypeFor(answer.user, d)
                       /\ next.preview[d].status = debt[d].status
                       /\ next.preview[d].remaining = debt[d].remaining
  BY <1>2
<1>4. ds \subseteq OwedBy(answer.user) \cup OwedTo(answer.user)
  BY DEF Previews, Previewable
<1>5. ASSUME NEW type \in Directions
      PROVE  /\ Total(PreviewIn(next, type)) \in Nat
             /\ Total(PreviewIn(next, type)) <= Total(Left(answer.user, type))
  <2>1. PICK f, g : f = PreviewIn(next, type) /\ g = Left(answer.user, type)
    OBVIOUS
  <2>2. DOMAIN g = Live(answer.user, type) /\ \A d \in DOMAIN g : g[d] = debt[d].remaining
    BY <2>1 DEF Left
  <2>3. /\ DOMAIN f = {d \in ds : TypeFor(answer.user, d) = type
                                    /\ debt[d].status \in PayableStatuses}
        /\ \A d \in DOMAIN f : f[d] = debt[d].remaining
    <3>1. DOMAIN f = {d \in ds : next.preview[d].type = type
                                    /\ next.preview[d].status \in PayableStatuses}
      BY <1>3, <2>1 DEF PreviewIn
    <3>2. \A d \in DOMAIN f : f[d] = next.preview[d].remaining
      BY <2>1, <3>1 DEF PreviewIn
    <3> QED
      BY <1>3, <3>1, <3>2
  <2>4. DOMAIN f \subseteq DOMAIN g
    BY <1>4, <2>2, <2>3 DEF Live, Side, OwedBy, OwedTo, TypeFor, Directions
  <2>5. \A d \in DOMAIN g : debt[d].remaining \in Nat
    BY <2>2, LedgerAssumption DEF Live, Side, Inv, TypeOK, DebtRow
  <2>6. \A d \in DOMAIN f : f[d] \in Nat /\ g[d] \in Nat /\ f[d] <= g[d]
    BY <2>2, <2>3, <2>4, <2>5
  <2>7. IsFiniteSet(DOMAIN g)
    BY <2>1, SumsAreNat
  <2> QED
    BY <2>1, <2>4, <2>6, <2>7, TotalGrows
<1>6. UNCHANGED vars
  BY DEF ReadUnsettled
<1>7. AnswerOK(next)'
  BY <1>1, <1>3, <1>5, <1>6, ReadKeepsAnswer
<1> QED
  BY <1>2, <1>7 DEF ReaderOK

LEMMA PersonsRead ==
  ASSUME Inv, ReaderOK, ReadPersons
  PROVE  ReaderOK'
<1>1. PICK answer : answer = reader /\ answer.stage = "persons" /\ AnswerOK(answer)
  BY DEF ReaderOK, ReadPersons, NoReader
<1>2. PICK next : /\ next = reader'
                  /\ next.stage = "done" /\ next.user = answer.user
                  /\ next.taken = answer.taken /\ next.totals = answer.totals
                  /\ next.preview = answer.preview
                  /\ next.persons = PersonBalances(answer.user)
  BY <1>1 DEF ReadPersons
<1>3. \A type \in Directions : PersonsIn(next, type) = Total(Left(answer.user, type))
  BY <1>2, RowsAddUp DEF PersonsIn
<1>4. UNCHANGED vars
  BY DEF ReadPersons
<1>5. AnswerOK(next)'
  BY <1>1, <1>2, <1>3, <1>4, ReadKeepsAnswer
<1> QED
  BY <1>2, <1>5 DEF ReaderOK

LEMMA ReaderStepOK ==
  ASSUME Inv, Inv', ReaderOK, [DashboardNext]_dashboardVars
  PROVE  ReaderOK'
<1>1. CASE [Next]_vars /\ UNCHANGED reader
  <2>1. PICK answer : answer = reader /\ (answer = NoReader \/ AnswerOK(answer))
    BY DEF ReaderOK
  <2>2. answer = reader'
    BY <1>1, <2>1
  <2>3. answer = NoReader \/ AnswerOK(answer)'
    BY <1>1, <2>1, LedgerStepKeepsAnswer
  <2> QED
    BY <2>2, <2>3 DEF ReaderOK, NoReader
<1>2. CASE EndRead
  BY <1>2 DEF EndRead, ReaderOK, NoReader
<1> QED
  BY <1>1, <1>2, TotalsRead, UnsettledRead, PersonsRead DEF DashboardNext, Read, dashboardVars, vars

\* LaterPartsAddOnlyAcceptedDebts: what a later part of a snapshot shows beyond the
\* totals was accepted after they were read.
THEOREM LaterPartsAddOnlyAccepted == DashboardSpec => []LaterPartsAddOnlyAcceptedDebts
<1>1. DashboardInit => ReaderOK
  BY DEF DashboardInit, ReaderOK
<1>2. Inv /\ Inv' /\ ReaderOK /\ [DashboardNext]_dashboardVars => ReaderOK'
  BY ReaderStepOK
<1>3. ReaderOK => LaterPartsAddOnlyAcceptedDebts
  <2> SUFFICES ASSUME ReaderOK, reader.stage = "done", NEW type \in Directions
               PROVE  /\ SumOf(AmountsIn(OfType(reader.persons, type))) <= Limit(type)
                      /\ Total(Previewed(type)) <= Limit(type)
    BY DEF LaterPartsAddOnlyAcceptedDebts
  <2>1. AnswerOK(reader)
    BY DEF ReaderOK, NoReader
  <2>2. PersonsIn(reader, type) <= Bound(reader, type)
        /\ Total(PreviewIn(reader, type)) <= Bound(reader, type)
    BY <2>1 DEF AnswerOK
  <2>3. PreviewIn(reader, type) = Previewed(type)
    BY DEF PreviewIn, Previewed
  <2> QED
    BY <2>2, <2>3, BoundIsLimit DEF PersonsIn
<1> QED
  BY <1>1, <1>2, <1>3, ReadersChangeNothing, InvAlways, PTL DEF DashboardSpec
===============================================================================
