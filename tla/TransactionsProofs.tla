-------------------------- MODULE TransactionsProofs --------------------------
(***************************************************************************)
(* Transactions implements Ledger, for any debts, users, payments, amounts *)
(* and number of connections: the theorems of LedgerProofs hold of what    *)
(* the transactions commit.  The invariant behind it is that what a        *)
(* transaction has read of a row it has locked is still what the row is.   *)
(* For deadlocks it is that bulk marks which saw the same of two debts     *)
(* lock them in the same order.                                            *)
(***************************************************************************)
EXTENDS Transactions, FiniteSetTheorems, TLAPS

-------------------------------------------------------------------------------
(* The inductive invariant. *)

Reviews(t) == tx[t].op \in {"confirm", "reject"}

\* The records of transactions, with a given request and given contents.
TxRecord(request, saw) ==
    [op : {"none", "mark", "bulk", "confirm", "reject"}, request : {request},
     plan : Seq(Rows), locked : Nat, saw : {saw}, rows : Seq(Rows)]

\* The fields of a transaction, whatever its operation.
Shaped(t) ==
    /\ tx[t] \in TxRecord(tx[t].request, tx[t].saw)
    /\ tx[t].locked \in 0..Len(tx[t].plan)

\* The plan is that of the operation, and locks no row twice.
Planned(t) ==
    LET req == tx[t].request
        plan == tx[t].plan
    IN  /\ \A i, j \in 1..Len(plan) : plan[i] = plan[j] => i = j
        /\ tx[t].op = "none" => plan = <<>>
        /\ tx[t].op = "mark" => req.kind = "mark" /\ req.debt \in Debts /\ plan = <<req.debt>>
        /\ tx[t].op = "bulk" =>
             /\ req.kind = "bulk"
             /\ req.seen \subseteq Debts
             /\ req.seen = {plan[i] : i \in 1..Len(plan)}
        /\ Reviews(t) =>
             /\ req.user \in Users
             /\ req.payment \in DOMAIN payment
             /\ req.debt = payment[req.payment].debt
             /\ plan = <<req.payment, req.debt>>

\* The rows that a transaction has locked are its own, and as it has read them.
Locking(t) ==
    LET held == {tx[t].plan[i] : i \in 1..tx[t].locked}
    IN  /\ \A x \in Rows : holder[x] = t <=> x \in held
        /\ DOMAIN tx[t].saw = held
        /\ \A x \in held : tx[t].saw[x] = Row(x)

\* A bulk mark has been given each locked debt that is payable, once.
Returning(t) ==
    LET rows == tx[t].rows
        req == tx[t].request
    IN  tx[t].op = "bulk" =>
          /\ \A i, j \in 1..Len(rows) : rows[i] = rows[j] => i = j
          /\ {rows[i] : i \in 1..Len(rows)}
               = {d \in {tx[t].plan[i] : i \in 1..tx[t].locked} :
                    Ledger!BulkPayable(d, req.user, req.receiver)}

TxOK(t) == Shaped(t) /\ Planned(t) /\ Locking(t) /\ Returning(t)

TablesOK ==
    /\ holder \in [Rows -> Txs \cup {Nobody}]
    /\ tx \in [Txs -> {tx[t] : t \in Txs}]
    /\ DOMAIN payment \subseteq Payments
    /\ \A p \in DOMAIN payment : payment[p].debt \in Debts

IInv == TablesOK /\ \A t \in Txs : TxOK(t)

-------------------------------------------------------------------------------
(* A step of one transaction leaves the others alone. *)

\* A transaction keeps its invariant when the rows it has locked stay as they
\* are and stay its own, and when payments stay with their debts.
Spared(u) ==
    /\ tx'[u] = tx[u]
    /\ \A x \in Rows : holder'[x] = u <=> holder[x] = u
    /\ \A x \in Rows : holder[x] = u /\ (x \in Payments => x \in DOMAIN payment) => Row(x)' = Row(x)
    /\ \A p \in DOMAIN payment : p \in DOMAIN payment' /\ payment'[p].debt = payment[p].debt

LEMMA OthersKeep ==
  ASSUME IInv, NEW u \in Txs, Spared(u)
  PROVE  TxOK(u)'
<1> DEFINE held == {tx[u].plan[i] : i \in 1..tx[u].locked}
<1>1. TxOK(u)
  BY DEF IInv
<1>2. Shaped(u)'
  BY <1>1 DEF TxOK, Shaped, TxRecord, Spared
<1>3. Planned(u)'
  BY <1>1 DEF TxOK, Planned, Spared, Reviews
<1>4. held \subseteq Rows
  BY <1>1 DEF TxOK, Shaped, TxRecord
<1>5. \A x \in held : x \in Payments => x \in DOMAIN payment
  <2>1. CASE tx[u].op \in {"none", "mark", "bulk"}
    <3>1. \A i \in 1..Len(tx[u].plan) : tx[u].plan[i] \in Debts
      BY <1>1, <2>1 DEF TxOK, Shaped, TxRecord, Planned
    <3>2. held \subseteq Debts
      BY <1>1, <3>1 DEF TxOK, Shaped, TxRecord
    <3> QED
      BY <3>2, TransactionsAssumption
  <2>2. CASE Reviews(u)
    <3>1. tx[u].plan = <<tx[u].request.payment, tx[u].request.debt>>
      BY <1>1, <2>2 DEF TxOK, Planned
    <3>2. tx[u].request.payment \in DOMAIN payment /\ tx[u].request.debt \in Debts
      BY <1>1, <2>2 DEF TxOK, Planned, IInv, TablesOK
    <3>3. held \subseteq {tx[u].request.payment, tx[u].request.debt}
      BY <1>1, <3>1 DEF TxOK, Shaped, TxRecord
    <3> QED
      BY <3>2, <3>3, TransactionsAssumption
  <2> QED
    BY <1>1, <2>1, <2>2 DEF TxOK, Shaped, TxRecord, Reviews
<1>6. \A x \in held : holder[x] = u /\ Row(x)' = Row(x)
  BY <1>1, <1>4, <1>5 DEF TxOK, Locking, Spared
<1>7. Locking(u)'
  BY <1>1, <1>6 DEF TxOK, Locking, Spared
<1>8. Returning(u)'
  <2> SUFFICES ASSUME tx[u].op = "bulk" PROVE Returning(u)'
    BY DEF Returning, Spared
  <2>1. held \subseteq Debts
    BY <1>1 DEF TxOK, Shaped, TxRecord, Planned
  <2>2. \A d \in held : debt'[d] = debt[d]
    BY <1>6, <2>1 DEF Row
  <2>3. tx'[u] = tx[u]
    BY DEF Spared
  <2>4. {d \in held : Ledger!BulkPayable(d, tx[u].request.user, tx[u].request.receiver)}'
          = {d \in held : Ledger!BulkPayable(d, tx[u].request.user, tx[u].request.receiver)}
    BY <2>2, <2>3 DEF Ledger!BulkPayable, Ledger!PayableStatuses
  <2> QED
    BY <1>1, <2>3, <2>4 DEF TxOK, Returning
<1> QED
  BY <1>2, <1>3, <1>7, <1>8 DEF TxOK

\* A step of t that keeps the invariant of t and spares the others keeps it all.
LEMMA OneStep ==
  ASSUME IInv, NEW t \in Txs, TablesOK', TxOK(t)', \A u \in Txs \ {t} : Spared(u)
  PROVE  IInv'
<1>1. \A u \in Txs \ {t} : TxOK(u)'
  BY OthersKeep
<1> QED
  BY <1>1 DEF IInv

\* A transaction that has not begun, or has just ended, holds nothing.
LEMMA ClosedIsOK ==
  ASSUME NEW t \in Txs, tx[t] = Closed, \A x \in Rows : holder[x] # t
  PROVE  TxOK(t)
<1>1. /\ tx[t].op = "none" /\ tx[t].plan = <<>> /\ tx[t].locked = 0
      /\ tx[t].rows = <<>> /\ DOMAIN tx[t].saw = {}
  BY DEF Closed, Started
<1>2. Shaped(t)
  BY <1>1 DEF Shaped, TxRecord, Closed, Started
<1>3. Planned(t)
  BY <1>1 DEF Planned, Reviews
<1>4. Locking(t)
  BY <1>1 DEF Locking
<1>5. Returning(t)
  BY <1>1 DEF Returning
<1> QED
  BY <1>2, <1>3, <1>4, <1>5 DEF TxOK

\* A transaction that begins has locked nothing.
LEMMA BeginsOK ==
  ASSUME IInv, NEW t \in Txs, ~Open(t),
         NEW op \in {"mark", "bulk", "confirm", "reject"}, NEW req, NEW plan \in Seq(Rows),
         tx' = [tx EXCEPT ![t] = Started(op, req, plan)],
         UNCHANGED <<debt, payment, holder>>,
         Planned(t)'
  PROVE  IInv'
<1>1. TxOK(t)
  BY DEF IInv
<1>2. \A x \in Rows : holder[x] # t
  <2>1. tx[t].plan = <<>> /\ tx[t].locked \in 0..Len(tx[t].plan)
    BY <1>1 DEF TxOK, Shaped, TxRecord, Planned, Open
  <2>2. tx[t].locked = 0
    BY <2>1
  <2>3. {tx[t].plan[i] : i \in 1..tx[t].locked} = {}
    BY <2>2
  <2> QED
    BY <1>1, <2>3 DEF TxOK, Locking
<1>3. tx'[t] = Started(op, req, plan)
  BY DEF IInv, TablesOK
<1>4. /\ tx'[t].op = op /\ tx'[t].plan = plan /\ tx'[t].locked = 0
      /\ tx'[t].rows = <<>> /\ DOMAIN tx'[t].saw = {} /\ tx'[t].request = req
  BY <1>3 DEF Started
<1>5. Shaped(t)'
  <2>1. <<>> \in Seq(Rows) /\ Len(plan) \in Nat
    OBVIOUS
  <2> DEFINE new == Started(op, req, plan)
  <2>2. new \in TxRecord(new.request, new.saw)
    BY <2>1 DEF Started, TxRecord
  <2> QED
    BY <1>3, <1>4, <2>1, <2>2 DEF Shaped
<1>6. Locking(t)'
  BY <1>2, <1>4 DEF Locking
<1>7. Returning(t)'
  BY <1>4 DEF Returning
<1>8. TablesOK'
  BY <1>3 DEF IInv, TablesOK
<1>9. \A u \in Txs \ {t} : Spared(u)
  BY DEF IInv, TablesOK, Spared, Row
<1> QED
  BY <1>5, <1>6, <1>7, <1>8, <1>9, OneStep DEF TxOK

\* A transaction that ends lets go of its rows and of no others.
LEMMA EndsOK ==
  ASSUME IInv, NEW t \in Txs, End(t),
         DOMAIN payment \subseteq DOMAIN payment', DOMAIN payment' \subseteq Payments,
         \A p \in DOMAIN payment' : payment'[p].debt \in Debts,
         \A p \in DOMAIN payment : payment'[p].debt = payment[p].debt,
         \A d \in Debts : holder[d] \notin {t, Nobody} => debt'[d] = debt[d],
         \A p \in DOMAIN payment : holder[p] \notin {t, Nobody} => payment'[p] = payment[p]
  PROVE  IInv'
<1>1. tx' = [tx EXCEPT ![t] = Closed] /\ tx'[t] = Closed
  BY DEF End, IInv, TablesOK
<1>2. holder' \in [Rows -> Txs \cup {Nobody}]
  BY DEF End, IInv, TablesOK
<1>3. \A x \in Rows : holder'[x] # t
  BY TransactionsAssumption DEF End
<1>4. TxOK(t)'
  <2>1. tx'[t].op = "none" /\ tx'[t].plan = <<>> /\ tx'[t].locked = 0
        /\ tx'[t].rows = <<>> /\ DOMAIN tx'[t].saw = {}
    BY <1>1 DEF Closed, Started
  <2>2. Shaped(t)'
    <3>1. <<>> \in Seq(Rows) /\ Len(<<>>) = 0
      OBVIOUS
    <3>2. Closed \in TxRecord(Closed.request, Closed.saw)
      BY <3>1 DEF Closed, Started, TxRecord
    <3> QED
      BY <1>1, <2>1, <3>1, <3>2 DEF Shaped
  <2>3. Planned(t)'
    BY <2>1 DEF Planned, Reviews
  <2>4. Locking(t)'
    BY <1>3, <2>1 DEF Locking
  <2>5. Returning(t)'
    BY <2>1 DEF Returning
  <2> QED
    BY <2>2, <2>3, <2>4, <2>5 DEF TxOK
<1>5. TablesOK'
  BY <1>1, <1>2 DEF IInv, TablesOK
<1>6. ASSUME NEW u \in Txs \ {t} PROVE Spared(u)
  <2>1. tx'[u] = tx[u]
    BY <1>1 DEF IInv, TablesOK
  <2>2. \A x \in Rows : holder'[x] = u <=> holder[x] = u
    BY TransactionsAssumption DEF End
  <2>3. u # Nobody
    BY TransactionsAssumption
  <2>4. \A x \in Rows : holder[x] = u /\ (x \in Payments => x \in DOMAIN payment)
                          => Row(x)' = Row(x)
    BY <2>3, TransactionsAssumption DEF Row, Rows
  <2> QED
    BY <2>1, <2>2, <2>4 DEF Spared
<1> QED
  BY <1>4, <1>5, <1>6, OneStep

-------------------------------------------------------------------------------
(* What each step is in Ledger. *)

requests == [t \in Txs |-> MarkingRequest(t)]

\* Ledger sees the request of one transaction change.
LEMMA OneRequest ==
  ASSUME NEW t \in Txs, \A u \in Txs \ {t} : tx'[u] = tx[u],
         NEW r, MarkingRequest(t)' = r
  PROVE  requests' = [requests EXCEPT ![t] = r]
<1>1. \A u \in Txs \ {t} : MarkingRequest(u)' = MarkingRequest(u)
  BY DEF MarkingRequest
<1>2. requests' = [u \in Txs |-> MarkingRequest(u)']
  BY DEF requests
<1> HIDE DEF MarkingRequest
<1> QED
  BY <1>1, <1>2 DEF requests

\* A mark begins in both.
LEMMA MarkBegins ==
  ASSUME IInv, NEW t \in Txs, NEW user \in Users, NEW d \in Debts, NEW amount \in Ledger!Amounts,
         MarkBegin(t, user, d, amount)
  PROVE  IInv' /\ Ledger!MarkBegin(t, user, d, amount)
<1> DEFINE req == [kind |-> "mark", user |-> user, debt |-> d, amount |-> amount,
                   pendingSeen |-> Ledger!PendingTotal(d)]
<1>1. /\ ~Open(t) /\ tx' = [tx EXCEPT ![t] = Started("mark", req, <<d>>)]
      /\ UNCHANGED <<debt, payment, holder, older>>
  BY DEF MarkBegin
<1>2. tx'[t] = Started("mark", req, <<d>>) /\ \A u \in Txs \ {t} : tx'[u] = tx[u]
  BY <1>1 DEF IInv, TablesOK
<1>3. tx'[t].op = "mark" /\ tx'[t].request = req /\ tx'[t].plan = <<d>>
  BY <1>2 DEF Started
<1>4. Planned(t)'
  BY <1>3 DEF Planned, Reviews
<1>5. <<d>> \in Seq(Rows)
  BY DEF Rows
<1>6. IInv'
  BY <1>1, <1>4, <1>5, BeginsOK
<1>7. MarkingRequest(t) = Ledger!Idle
  BY <1>1 DEF Open, MarkingRequest, Ledger!Idle
<1>8. MarkingRequest(t)' = req
  BY <1>3 DEF MarkingRequest
<1>9. requests' = [requests EXCEPT ![t] = req]
  BY <1>2, <1>8, OneRequest
<1> QED
  BY <1>1, <1>6, <1>7, <1>9 DEF Ledger!MarkBegin, requests

\* A bulk mark begins in both, with the debts of its plan seen.
LEMMA BulkMarkBegins ==
  ASSUME IInv, NEW t \in Txs, NEW user \in Users, NEW receiver \in Users,
         NEW amount \in Ledger!Amounts, BulkMarkBegin(t, user, receiver, amount)
  PROVE  IInv' /\ Ledger!BulkMarkBegin(t, user, receiver, amount)
<1> DEFINE seen == {d \in Debts : /\ Ledger!BulkPayable(d, user, receiver)
                                  /\ Ledger!PaymentsOn(d, "pending_confirmation") = {}}
           req == [kind |-> "bulk", user |-> user, receiver |-> receiver, amount |-> amount,
                   seen |-> seen, owed |-> [d \in seen |-> debt[d].remaining]]
           asked == [kind |-> "bulk", user |-> user, receiver |-> receiver, amount |-> amount,
                     seen |-> seen]
<1>1. PICK order \in LockingOrder(seen) : tx' = [tx EXCEPT ![t] = Started("bulk", req, order)]
  BY DEF BulkMarkBegin
<1>2. ~Open(t) /\ receiver # user /\ UNCHANGED <<debt, payment, holder, older>>
  BY DEF BulkMarkBegin
<1>3. tx'[t] = Started("bulk", req, order) /\ \A u \in Txs \ {t} : tx'[u] = tx[u]
  BY <1>1 DEF IInv, TablesOK
<1>4. IsFiniteSet(seen) /\ seen \subseteq Debts
  BY TransactionsAssumption, FS_Subset
<1>5. Cardinality(seen) \in Nat
  BY <1>4, FS_CardinalityType
<1>6. order \in Bijection(1..Cardinality(seen), seen)
  BY DEF LockingOrder
<1> HIDE DEF seen
<1>7. /\ order \in [1..Cardinality(seen) -> seen]
      /\ \A i, j \in 1..Cardinality(seen) : order[i] = order[j] => i = j
      /\ \A d \in seen : \E i \in 1..Cardinality(seen) : order[i] = d
  BY <1>6 DEF Bijection, Injection, Surjection, IsInjective
<1>8. order \in Seq(Rows) /\ Len(order) = Cardinality(seen)
  BY <1>4, <1>5, <1>7 DEF Rows
<1>9. tx'[t].op = "bulk" /\ tx'[t].request = req /\ tx'[t].plan = order
  BY <1>3 DEF Started
<1>10. seen = {order[i] : i \in 1..Len(order)}
  BY <1>7, <1>8
<1>11. Planned(t)'
  <2>1. tx'[t].request.kind = "bulk" /\ tx'[t].request.seen = seen
    BY <1>9
  <2>2. \A i, j \in 1..Len(order) : order[i] = order[j] => i = j
    BY <1>7, <1>8
  <2> HIDE DEF req
  <2> QED
    BY <1>4, <1>9, <1>10, <2>1, <2>2 DEF Planned, Reviews
<1>12. IInv'
  BY <1>1, <1>2, <1>8, <1>11, BeginsOK
<1>13. MarkingRequest(t) = Ledger!Idle
  BY <1>2 DEF Open, MarkingRequest, Ledger!Idle
<1>14. MarkingRequest(t)' = asked
  BY <1>9 DEF MarkingRequest
<1>15. requests' = [requests EXCEPT ![t] = asked]
  BY <1>3, <1>14, OneRequest
<1> QED
  BY <1>2, <1>12, <1>13, <1>15 DEF Ledger!BulkMarkBegin, requests, seen

\* A review begins; Ledger sees nothing of it.
LEMMA ReviewBegins ==
  ASSUME IInv, NEW t \in Txs, NEW op \in {"confirm", "reject"}, NEW user \in Users,
         NEW p \in DOMAIN payment, ReviewBegin(t, op, user, p)
  PROVE  IInv' /\ UNCHANGED <<debt, payment, requests>>
<1> DEFINE req == [kind |-> "review", user |-> user, payment |-> p, debt |-> payment[p].debt]
           plan == <<p, payment[p].debt>>
<1>1. /\ ~Open(t) /\ tx' = [tx EXCEPT ![t] = Started(op, req, plan)]
      /\ UNCHANGED <<debt, payment, holder>>
  BY DEF ReviewBegin, ReviewPlan
<1>2. tx'[t] = Started(op, req, plan) /\ \A u \in Txs \ {t} : tx'[u] = tx[u]
  BY <1>1 DEF IInv, TablesOK
<1>3. p \in Payments /\ payment[p].debt \in Debts /\ p # payment[p].debt
  BY TransactionsAssumption DEF IInv, TablesOK
<1>4. plan \in Seq(Rows)
  BY <1>3 DEF Rows
<1>5. tx'[t].op = op /\ tx'[t].request = req /\ tx'[t].plan = plan
  BY <1>2 DEF Started
<1>6. Planned(t)'
  <2>1. \A i, j \in 1..Len(plan) : plan[i] = plan[j] => i = j
    BY <1>3
  <2>2. op \notin {"none", "mark", "bulk"}
    OBVIOUS
  <2>3. /\ req.user \in Users /\ req.payment = p /\ req.debt = payment[p].debt
        /\ payment' = payment
    BY <1>1
  <2> HIDE DEF req
  <2> QED
    BY <1>5, <2>1, <2>2, <2>3 DEF Planned, Reviews
<1>7. IInv'
  BY <1>1, <1>4, <1>6, BeginsOK
<1>8. MarkingRequest(t)' = MarkingRequest(t)
  BY <1>1, <1>5 DEF Open, MarkingRequest
<1>9. requests' = requests
  BY <1>2, <1>8 DEF requests, MarkingRequest
<1> QED
  BY <1>1, <1>7, <1>9

\* A lock changes three fields of a transaction.
LEMMA ReadsOneMore ==
  ASSUME NEW old, old \in TxRecord(old.request, old.saw), NEW newsaw, NEW newrows \in Seq(Rows)
  PROVE  [old EXCEPT !.locked = @ + 1, !.saw = newsaw, !.rows = newrows]
           \in TxRecord(old.request, newsaw)
<1> DEFINE one == [old EXCEPT !.locked = @ + 1]
           two == [one EXCEPT !.saw = newsaw]
<1> HIDE DEF one, two
<1>1. one \in TxRecord(old.request, old.saw)
  <2>1. old.locked \in Nat /\ old.locked + 1 \in Nat
    BY DEF TxRecord
  <2> DEFINE more == old.locked + 1
  <2>2. one = [old EXCEPT !.locked = more]
    BY DEF one
  <2> HIDE DEF more
  <2>3. more \in Nat
    BY <2>1 DEF more
  <2> QED
    BY <2>2, <2>3 DEF TxRecord
<1>2. two \in TxRecord(old.request, newsaw)
  BY <1>1 DEF two, TxRecord
<1>3. [two EXCEPT !.rows = newrows] \in TxRecord(old.request, newsaw)
  BY <1>2 DEF TxRecord
<1> QED
  BY <1>3 DEF one, two

\* A row is locked and read; Ledger sees nothing of it.
LEMMA LockIsSilent ==
  ASSUME IInv, NEW t \in Txs, Lock(t)
  PROVE  IInv' /\ UNCHANGED <<debt, payment, requests>>
<1> DEFINE x == Wanted(t)
           old == tx[t]
           held == {old.plan[i] : i \in 1..old.locked}
           newrows == IF Returned(t, x) THEN Append(old.rows, x) ELSE old.rows
<1>1. TxOK(t)
  BY DEF IInv
<1>2. /\ old.plan \in Seq(Rows) /\ old.rows \in Seq(Rows) /\ Len(old.plan) \in Nat
      /\ old.locked \in 0..(Len(old.plan) - 1)
  BY <1>1 DEF TxOK, Shaped, TxRecord, Lock, Waits, AllLocked
<1>3. x \in Rows /\ x = old.plan[old.locked + 1] /\ x \notin held
  <2>1. x = old.plan[old.locked + 1] /\ old.locked + 1 \in 1..Len(old.plan)
    BY <1>2 DEF Wanted
  <2>2. \A i, j \in 1..Len(old.plan) : old.plan[i] = old.plan[j] => i = j
    BY <1>1 DEF TxOK, Planned
  <2>3. x \in Rows
    BY <1>2, <2>1
  <2>4. \A i \in 1..old.locked : i \in 1..Len(old.plan) /\ i # old.locked + 1
    BY <1>2
  <2> HIDE DEF x
  <2>5. x \notin held
    BY <2>1, <2>2, <2>4
  <2> QED
    BY <2>1, <2>3, <2>5
<1>4. /\ holder[x] = Nobody /\ holder' = [holder EXCEPT ![x] = t]
      /\ UNCHANGED <<debt, payment>>
  BY DEF Lock, LockedBy
<1>5. tx' = [tx EXCEPT ![t].locked = @ + 1, ![t].saw = Locked(@, x), ![t].rows = newrows]
  BY DEF Lock
<1>6. /\ tx'[t] = [old EXCEPT !.locked = @ + 1, !.saw = Locked(@, x), !.rows = newrows]
      /\ \A u \in Txs \ {t} : tx'[u] = tx[u]
  BY <1>5 DEF IInv, TablesOK
<1>7. newrows \in Seq(Rows)
  BY <1>2, <1>3
<1>8. /\ tx'[t].op = old.op /\ tx'[t].request = old.request /\ tx'[t].plan = old.plan
      /\ tx'[t].locked = old.locked + 1 /\ tx'[t].saw = Locked(old.saw, x)
      /\ tx'[t].rows = newrows
  BY <1>1, <1>6 DEF TxOK, Shaped, TxRecord
<1> HIDE DEF x, newrows
<1>9. Shaped(t)'
  <2> DEFINE newsaw == Locked(old.saw, x)
  <2>1. old \in TxRecord(old.request, old.saw)
    BY <1>1 DEF TxOK, Shaped, TxRecord
  <2>2. tx'[t] = [old EXCEPT !.locked = @ + 1, !.saw = newsaw, !.rows = newrows]
    BY <1>6
  <2> HIDE DEF newsaw, old
  <2>3. tx'[t] \in TxRecord(old.request, newsaw)
    <3>1. newrows \in Seq(Rows)
      BY <1>7
    <3>2. [old EXCEPT !.locked = @ + 1, !.saw = newsaw, !.rows = newrows]
            \in TxRecord(old.request, newsaw)
      BY <2>1, <3>1, ReadsOneMore
    <3> QED
      BY <2>2, <3>2
  <2>4. tx'[t].request = old.request /\ tx'[t].saw = newsaw
    BY <1>8 DEF newsaw
  <2> QED
    BY <1>2, <1>8, <2>3, <2>4 DEF Shaped, TxRecord, old
<1>10. Planned(t)'
  BY <1>1, <1>4, <1>8 DEF TxOK, Planned, Reviews
<1>11. {tx'[t].plan[i] : i \in 1..tx'[t].locked} = held \cup {x}
  BY <1>2, <1>3, <1>8
<1>12. Locking(t)'
  <2>1. \A y \in Rows : holder'[y] = t <=> y \in held \cup {x}
    BY <1>1, <1>3, <1>4 DEF TxOK, Locking, IInv, TablesOK
  <2>2. DOMAIN Locked(old.saw, x) = held \cup {x}
    BY <1>1 DEF TxOK, Locking, Locked
  <2>3. \A y \in held \cup {x} : Locked(old.saw, x)[y] = Row(y)
    BY <1>1, <1>3 DEF TxOK, Locking, Locked
  <2>4. \A y : Row(y)' = Row(y)
    BY <1>4 DEF Row
  <2> QED
    BY <1>8, <1>11, <2>1, <2>2, <2>3, <2>4 DEF Locking
<1>13. Returning(t)'
  <2> SUFFICES ASSUME old.op = "bulk" PROVE Returning(t)'
    BY <1>8 DEF Returning
  <2> DEFINE payable(d) == Ledger!BulkPayable(d, old.request.user, old.request.receiver)
             listed == {old.rows[i] : i \in 1..Len(old.rows)}
  <2>1. /\ \A i, j \in 1..Len(old.rows) : old.rows[i] = old.rows[j] => i = j
        /\ listed = {d \in held : payable(d)}
    BY <1>1 DEF TxOK, Returning
  <2>2. newrows = IF payable(x) THEN Append(old.rows, x) ELSE old.rows
    BY DEF newrows, Returned
  <2>3. x \notin listed
    BY <1>3, <2>1
  <2>4. /\ \A i, j \in 1..Len(newrows) : newrows[i] = newrows[j] => i = j
        /\ {newrows[i] : i \in 1..Len(newrows)} = {d \in held \cup {x} : payable(d)}
    <3>1. CASE payable(x)
      <4>1. newrows = Append(old.rows, x)
        BY <2>2, <3>1
      <4>2. /\ Len(newrows) = Len(old.rows) + 1 /\ newrows[Len(old.rows) + 1] = x
            /\ \A i \in 1..Len(old.rows) : newrows[i] = old.rows[i]
        BY <1>2, <1>3, <4>1
      <4>3. Len(old.rows) \in Nat
        BY <1>2
      <4>4. \A i, j \in 1..Len(newrows) : newrows[i] = newrows[j] => i = j
        BY <2>1, <2>3, <4>2, <4>3, SMTT(30)
      <4>5. {newrows[i] : i \in 1..Len(newrows)} = listed \cup {x}
        BY <4>2, <4>3
      <4> QED
        BY <2>1, <3>1, <4>4, <4>5
    <3>2. CASE ~payable(x)
      BY <2>1, <2>2, <3>2
    <3> QED
      BY <3>1, <3>2
  <2>5. {d \in {tx[t].plan[i] : i \in 1..tx[t].locked} :
           Ledger!BulkPayable(d, tx[t].request.user, tx[t].request.receiver)}'
          = {d \in held \cup {x} : payable(d)}
    BY <1>4, <1>8, <1>11 DEF Ledger!BulkPayable, Ledger!PayableStatuses
  <2> DEFINE now == tx'[t].rows
  <2>6. /\ \A i, j \in 1..Len(now) : now[i] = now[j] => i = j
        /\ {now[i] : i \in 1..Len(now)} = {d \in held \cup {x} : payable(d)}
    BY <1>8, <2>4
  <2> HIDE DEF payable, listed, held, old
  <2>7. /\ \A i, j \in 1..Len(now) : now[i] = now[j] => i = j
        /\ {now[i] : i \in 1..Len(now)}
             = {d \in {tx[t].plan[i] : i \in 1..tx[t].locked} :
                  Ledger!BulkPayable(d, tx[t].request.user, tx[t].request.receiver)}'
    BY <2>5, <2>6
  <2> QED
    BY <2>7 DEF Returning
<1>14. TablesOK'
  BY <1>3, <1>4, <1>5 DEF IInv, TablesOK
<1>15. \A u \in Txs \ {t} : Spared(u)
  BY <1>3, <1>4, <1>6, TransactionsAssumption DEF Spared, Row, IInv, TablesOK
<1>16. IInv'
  BY <1>9, <1>10, <1>12, <1>13, <1>14, <1>15, OneStep DEF TxOK
<1>17. MarkingRequest(t)' = MarkingRequest(t)
  BY <1>8 DEF MarkingRequest
<1>18. requests' = requests
  <2>1. \A u \in Txs : MarkingRequest(u)' = MarkingRequest(u)
    BY <1>6, <1>17 DEF MarkingRequest
  <2>2. requests' = [u \in Txs |-> MarkingRequest(u)']
    BY DEF requests
  <2> HIDE DEF MarkingRequest
  <2> QED
    BY <2>1, <2>2 DEF requests
<1> QED
  BY <1>4, <1>16, <1>18

-------------------------------------------------------------------------------
(* The commits. *)

\* What a transaction has read of a row it has locked is what the row is.
LEMMA ReadIsCurrent ==
  ASSUME IInv, NEW t \in Txs, AllLocked(t), NEW i \in 1..Len(tx[t].plan)
  PROVE  /\ tx[t].plan[i] \in Rows
         /\ holder[tx[t].plan[i]] = t
         /\ tx[t].saw[tx[t].plan[i]] = Row(tx[t].plan[i])
<1>1. TxOK(t)
  BY DEF IInv
<1>2. tx[t].plan[i] \in Rows
  BY <1>1 DEF TxOK, Shaped, TxRecord
<1>3. tx[t].plan[i] \in {tx[t].plan[j] : j \in 1..tx[t].locked}
  BY DEF AllLocked
<1> QED
  BY <1>1, <1>2, <1>3 DEF TxOK, Locking

\* New payments have ids that were not in use and leave the others alone.
LEMMA Inserts ==
  ASSUME IInv, NEW new, Ledger!InsertPayments(new), DOMAIN new \subseteq Ledger!FreshIds,
         \A p \in DOMAIN new : new[p].debt \in Debts
  PROVE  /\ DOMAIN payment \subseteq DOMAIN payment'
         /\ DOMAIN payment' \subseteq Payments
         /\ \A p \in DOMAIN payment' : payment'[p].debt \in Debts
         /\ \A p \in DOMAIN payment : payment'[p] = payment[p]
BY DEF IInv, TablesOK, Ledger!InsertPayments, Ledger!FreshIds

\* In Ledger, too, a transaction that ends stops marking.
LEMMA EndsInLedger ==
  ASSUME IInv, NEW t \in Txs, End(t)
  PROVE  requests' = [requests EXCEPT ![t] = Ledger!Idle]
<1>1. tx'[t] = Closed /\ \A u \in Txs \ {t} : tx'[u] = tx[u]
  BY DEF End, IInv, TablesOK
<1>2. MarkingRequest(t)' = Ledger!Idle
  BY <1>1 DEF MarkingRequest, Closed, Started, Ledger!Idle
<1> QED
  BY <1>1, <1>2, OneRequest

\* A mark commits in both.
LEMMA MarkCommits ==
  ASSUME IInv, NEW t \in Txs, MarkCommit(t)
  PROVE  IInv' /\ Ledger!MarkCommit(t)
<1> DEFINE req == tx[t].request
<1>1. /\ tx[t].op = "mark" /\ AllLocked(t) /\ CanMark(t) /\ End(t) /\ UNCHANGED debt
  BY DEF MarkCommit
<1>2. PICK p \in Ledger!FreshIds :
        Ledger!InsertPayments([q \in {p} |->
          [status |-> "pending_confirmation", debt |-> req.debt, paidBy |-> req.user,
           receivedBy |-> Creditor[req.debt], amount |-> req.amount]])
  BY DEF MarkCommit
<1>3. req.kind = "mark" /\ req.debt \in Debts /\ tx[t].plan = <<req.debt>>
  BY <1>1 DEF IInv, TxOK, Planned
<1>4. tx[t].saw[req.debt] = debt[req.debt]
  <2>1. 1 \in 1..Len(tx[t].plan) /\ tx[t].plan[1] = req.debt
    BY <1>3
  <2>2. tx[t].saw[req.debt] = Row(req.debt)
    BY <1>1, <2>1, ReadIsCurrent
  <2> QED
    BY <1>3, <2>2 DEF Row
<1>5. requests[t] = req
  BY <1>1 DEF requests, MarkingRequest
<1>6. Ledger!CanMark(req)
  BY <1>1, <1>4 DEF CanMark, Ledger!CanMark
<1>7. requests' = [requests EXCEPT ![t] = Ledger!Idle]
  BY <1>1, EndsInLedger
<1>8. Ledger!MarkCommit(t)
  BY <1>1, <1>2, <1>3, <1>5, <1>6, <1>7 DEF Ledger!MarkCommit, requests
<1>9. IInv'
  BY <1>1, <1>2, <1>3, Inserts, EndsOK
<1> QED
  BY <1>8, <1>9

\* The instance of Ledger counts and numbers sets as this module does.
LEMMA SameLibraries ==
  /\ \A S : Ledger!Cardinality(S) = Cardinality(S)
  /\ \A S, T : Ledger!Bijection(S, T) = Bijection(S, T)
<1>1. ASSUME NEW S PROVE Ledger!Cardinality(S) = Cardinality(S)
  BY Zenon DEF Ledger!Cardinality, Cardinality, Ledger!IsFiniteSet, IsFiniteSet
<1>2. ASSUME NEW S, NEW T PROVE Ledger!Bijection(S, T) = Bijection(S, T)
  BY DEF Ledger!Bijection, Bijection, Ledger!Injection, Injection, Ledger!Surjection,
         Surjection, Ledger!IsInjective, IsInjective
<1> QED
  BY <1>1, <1>2

\* A list without repetition counts the set of its elements.
LEMMA ListsBijectively ==
  ASSUME NEW n \in Nat, NEW T, NEW s \in [1..n -> T],
         \A i, j \in 1..n : s[i] = s[j] => i = j,
         NEW S, S = {s[i] : i \in 1..n}
  PROVE  s \in Bijection(1..n, S)
<1>1. s \in [1..n -> S]
  OBVIOUS
<1>2. s \in Injection(1..n, S)
  BY <1>1 DEF Injection, IsInjective
<1>3. s \in Surjection(1..n, S)
  BY <1>1 DEF Surjection
<1> QED
  BY <1>2, <1>3 DEF Bijection

\* A bulk mark commits in both: the rows it was given are the debts that are
\* still payable, in one of the orders that Ledger allows.
LEMMA BulkMarkCommits ==
  ASSUME IInv, NEW t \in Txs, BulkMarkCommit(t)
  PROVE  IInv' /\ Ledger!BulkMarkCommit(t)
<1> DEFINE req == tx[t].request
           rows == tx[t].rows
           n == Len(rows)
           asked == requests[t]
           new(I, a, l) == [p \in I |->
             [status |-> "pending_confirmation", debt |-> rows[a[p]], paidBy |-> req.user,
              receivedBy |-> req.receiver, amount |-> l[a[p] - 1] - l[a[p]]]]
<1>1. /\ tx[t].op = "bulk" /\ AllLocked(t) /\ CanBulkMark(t) /\ End(t) /\ UNCHANGED debt
  BY DEF BulkMarkCommit
<1>2. PICK left \in [0..n -> 0..req.amount] :
        /\ Allocates(t, left)
        /\ \E ids \in SUBSET Ledger!FreshIds :
           \E at \in Bijection(ids, {i \in 1..n : left[i - 1] # 0}) :
             Ledger!InsertPayments(new(ids, at, left))
  BY DEF BulkMarkCommit
<1>2a. PICK ids \in SUBSET Ledger!FreshIds :
         \E at \in Bijection(ids, {i \in 1..n : left[i - 1] # 0}) :
           Ledger!InsertPayments(new(ids, at, left))
  BY <1>2
<1>3. PICK at \in Bijection(ids, {i \in 1..n : left[i - 1] # 0}) :
        Ledger!InsertPayments(new(ids, at, left))
  BY <1>2a
<1>4. TxOK(t)
  BY DEF IInv
<1>5. n \in Nat /\ rows \in [1..n -> Rows]
  BY <1>4 DEF TxOK, Shaped, TxRecord
<1>6. /\ req.kind = "bulk" /\ req.seen \subseteq Debts
      /\ req.seen = {tx[t].plan[i] : i \in 1..Len(tx[t].plan)}
  BY <1>1, <1>4 DEF TxOK, Planned
<1>7. /\ \A i, j \in 1..n : rows[i] = rows[j] => i = j
      /\ {rows[i] : i \in 1..n} = {d \in req.seen : Ledger!BulkPayable(d, req.user, req.receiver)}
  BY <1>1, <1>4, <1>6 DEF TxOK, Returning, AllLocked
<1>8. /\ asked.kind = "bulk" /\ asked.user = req.user /\ asked.receiver = req.receiver
      /\ asked.amount = req.amount /\ asked.seen = req.seen
  <2>1. asked = [f \in {"kind", "user", "receiver", "amount", "seen"} |-> req[f]]
    BY <1>1 DEF requests, MarkingRequest
  <2> QED
    BY <1>6, <2>1
<1> HIDE DEF asked, new
<1>10. Ledger!Locked(asked) = {rows[i] : i \in 1..n}
  BY <1>7, <1>8 DEF Ledger!Locked
<1>11. rows \in Bijection(1..n, Ledger!Locked(asked))
  <2> HIDE DEF rows, n
  <2> QED
    BY <1>5, <1>7, <1>10, ListsBijectively
<1>12. Cardinality(Ledger!Locked(asked)) = n
  BY <1>5, <1>11, FS_CountingElements DEF ExistsBijection
<1>13. \A i \in 1..n : rows[i] \in Debts /\ tx[t].saw[rows[i]] = debt[rows[i]]
  <2> SUFFICES ASSUME NEW i \in 1..n
               PROVE  rows[i] \in Debts /\ tx[t].saw[rows[i]] = debt[rows[i]]
    OBVIOUS
  <2>1. rows[i] \in req.seen
    BY <1>7
  <2>2. PICK j \in 1..Len(tx[t].plan) : tx[t].plan[j] = rows[i]
    BY <1>6, <2>1
  <2>3. rows[i] \in Debts
    BY <1>6, <2>1
  <2>4. tx[t].saw[rows[i]] = Row(rows[i])
    BY <1>1, <2>2, ReadIsCurrent
  <2> QED
    BY <2>3, <2>4 DEF Row
<1>14. Ledger!Allocates(left, rows, asked.amount)
  BY <1>2, <1>5, <1>8, <1>13 DEF Allocates, Ledger!Allocates
<1>15. Range(rows) = Ledger!Locked(asked)
  BY <1>5, <1>10 DEF Range
<1>16. [d \in Range(rows) |-> tx[t].saw[d].remaining] = Ledger!Available(asked)
  BY <1>10, <1>13, <1>15 DEF Ledger!Available
<1>17. Ledger!Locked(asked) # {} /\ asked.amount <= Ledger!Total(Ledger!Available(asked))
  <2>1. rows[1] \in Ledger!Locked(asked)
    <3>1. n # 0
      BY <1>1, <1>4 DEF CanBulkMark, TxOK, Shaped, TxRecord
    <3> QED
      BY <1>5, <1>10, <3>1
  <2>2. req.amount <= Ledger!Total(Ledger!Available(asked))
    BY <1>1, <1>16 DEF CanBulkMark
  <2> QED
    BY <1>8, <2>1, <2>2
<1>18. requests' = [requests EXCEPT ![t] = Ledger!Idle]
  BY <1>1, EndsInLedger
<1>19. Ledger!BulkMarkCommit(t)
  <2> DEFINE m == Ledger!Cardinality(Ledger!Locked(asked))
  <2>1. /\ rows \in Ledger!Bijection(1..m, Ledger!Locked(asked))
        /\ left \in [0..m -> 0..asked.amount]
        /\ at \in Ledger!Bijection(ids, {i \in 1..m : left[i - 1] # 0})
    BY <1>2, <1>3, <1>8, <1>11, <1>12, SameLibraries
  <2>2. Ledger!InsertPayments([p \in ids |->
          [status |-> "pending_confirmation", debt |-> rows[at[p]], paidBy |-> asked.user,
           receivedBy |-> asked.receiver, amount |-> left[at[p] - 1] - left[at[p]]]])
    BY <1>3, <1>8 DEF new
  <2> HIDE DEF n, rows
  <2>3. \E order \in Ledger!Bijection(1..m, Ledger!Locked(asked)), l \in [0..m -> 0..asked.amount] :
          /\ Ledger!Allocates(l, order, asked.amount)
          /\ \E I \in SUBSET Ledger!FreshIds :
             \E a \in Ledger!Bijection(I, {i \in 1..m : l[i - 1] # 0}) :
               Ledger!InsertPayments([p \in I |->
                 [status |-> "pending_confirmation", debt |-> order[a[p]],
                  paidBy |-> asked.user, receivedBy |-> asked.receiver,
                  amount |-> l[a[p] - 1] - l[a[p]]]])
    BY <1>14, <2>1, <2>2
  <2>4. requests' = [requests EXCEPT ![t] = Ledger!Idle] /\ UNCHANGED debt
    BY <1>1, <1>18
  <2> QED
    BY <1>8, <1>17, <2>3, <2>4 DEF Ledger!BulkMarkCommit, requests, asked
<1>21. IInv'
  <2>1. \A p \in ids : at[p] \in 1..n
    BY <1>3 DEF Bijection, Injection
  <2>2. DOMAIN new(ids, at, left) = ids
        /\ \A p \in ids : new(ids, at, left)[p].debt = rows[at[p]]
    BY DEF new
  <2> QED
    BY <1>1, <1>3, <1>13, <2>1, <2>2, Inserts, EndsOK
<1> QED
  BY <1>19, <1>21

\* What a review that has both locks has read.
LEMMA ReviewReads ==
  ASSUME IInv, NEW t \in Txs, Reviews(t), AllLocked(t)
  PROVE  LET req == tx[t].request
         IN  /\ req.user \in Users /\ req.payment \in DOMAIN payment
             /\ req.payment \in Payments /\ req.debt \in Debts
             /\ req.debt = payment[req.payment].debt
             /\ holder[req.payment] = t /\ holder[req.debt] = t
             /\ tx[t].saw[req.payment] = payment[req.payment]
             /\ tx[t].saw[req.debt] = debt[req.debt]
<1> DEFINE req == tx[t].request
<1>1. /\ req.user \in Users /\ req.payment \in DOMAIN payment
      /\ req.debt = payment[req.payment].debt
      /\ tx[t].plan = <<req.payment, req.debt>>
  BY DEF IInv, TxOK, Planned
<1>2. req.payment \in Payments /\ req.debt \in Debts
  BY <1>1 DEF IInv, TablesOK
<1>3. /\ 1 \in 1..Len(tx[t].plan) /\ tx[t].plan[1] = req.payment
      /\ 2 \in 1..Len(tx[t].plan) /\ tx[t].plan[2] = req.debt
  BY <1>1
<1>4. holder[req.payment] = t /\ tx[t].saw[req.payment] = Row(req.payment)
  BY <1>3, ReadIsCurrent
<1>5. holder[req.debt] = t /\ tx[t].saw[req.debt] = Row(req.debt)
  BY <1>3, ReadIsCurrent
<1> QED
  BY <1>1, <1>2, <1>4, <1>5, TransactionsAssumption DEF Row

\* Ledger does not see a review end.
LEMMA ReviewEndsSilently ==
  ASSUME IInv, NEW t \in Txs, ~Marking(t), End(t)
  PROVE  requests' = requests
<1>1. tx'[t] = Closed /\ \A u \in Txs \ {t} : tx'[u] = tx[u]
  BY DEF End, IInv, TablesOK
<1>2. \A u \in Txs : MarkingRequest(u)' = MarkingRequest(u)
  BY <1>1 DEF MarkingRequest, Closed, Started, Marking
<1>3. requests' = [u \in Txs |-> MarkingRequest(u)']
  BY DEF requests
<1> HIDE DEF MarkingRequest
<1> QED
  BY <1>2, <1>3 DEF requests

\* A confirmation commits in both, in one step of Ledger.
LEMMA ConfirmCommits ==
  ASSUME IInv, NEW t \in Txs, ConfirmCommit(t)
  PROVE  /\ IInv'
         /\ tx[t].request.payment \in DOMAIN payment /\ tx[t].request.user \in Users
         /\ Ledger!ConfirmPayment(tx[t].request.payment, tx[t].request.user)
<1> DEFINE p == tx[t].request.payment
           d == tx[t].request.debt
<1>1. /\ tx[t].op = "confirm" /\ AllLocked(t) /\ CanConfirm(t) /\ End(t)
      /\ debt' = [debt EXCEPT ![d] = Ledger!PaidDown(@, tx[t].saw[p].amount)]
      /\ payment' = [payment EXCEPT ![p].status = "confirmed"]
  BY DEF ConfirmCommit
<1>2. /\ tx[t].request.user \in Users /\ p \in DOMAIN payment /\ d = payment[p].debt
      /\ p \in Payments /\ d \in Debts /\ holder[p] = t /\ holder[d] = t
      /\ tx[t].saw[p] = payment[p] /\ tx[t].saw[d] = debt[d]
  BY <1>1, ReviewReads DEF Reviews
<1>3. requests' = requests
  BY <1>1, ReviewEndsSilently DEF Marking
<1>4. Ledger!ConfirmPayment(p, tx[t].request.user)
  BY <1>1, <1>2, <1>3 DEF CanConfirm, CanReject, Ledger!ConfirmPayment, requests
<1>5. /\ DOMAIN payment' = DOMAIN payment
      /\ \A q \in DOMAIN payment : payment'[q].debt = payment[q].debt
      /\ \A q \in DOMAIN payment : q # p => payment'[q] = payment[q]
  BY <1>1
<1>6. \A e \in Debts : e # d => debt'[e] = debt[e]
  BY <1>1
<1>7. IInv'
  <2>1. DOMAIN payment \subseteq Payments /\ \A q \in DOMAIN payment : payment[q].debt \in Debts
    BY DEF IInv, TablesOK
  <2> HIDE DEF p, d
  <2> QED
    BY <1>1, <1>2, <1>5, <1>6, <2>1, EndsOK
<1> QED
  BY <1>2, <1>4, <1>7

\* A rejection commits in both.
LEMMA RejectCommits ==
  ASSUME IInv, NEW t \in Txs, RejectCommit(t)
  PROVE  /\ IInv'
         /\ tx[t].request.payment \in DOMAIN payment /\ tx[t].request.user \in Users
         /\ Ledger!RejectPayment(tx[t].request.payment, tx[t].request.user)
<1> DEFINE p == tx[t].request.payment
<1>1. /\ tx[t].op = "reject" /\ AllLocked(t) /\ CanReject(t) /\ End(t)
      /\ UNCHANGED debt /\ payment' = [payment EXCEPT ![p].status = "rejected"]
  BY DEF RejectCommit
<1>2. /\ tx[t].request.user \in Users /\ p \in DOMAIN payment
      /\ holder[p] = t /\ tx[t].saw[p] = payment[p]
  BY <1>1, ReviewReads DEF Reviews
<1>3. requests' = requests
  BY <1>1, ReviewEndsSilently DEF Marking
<1>4. Ledger!RejectPayment(p, tx[t].request.user)
  BY <1>1, <1>2, <1>3 DEF CanReject, Ledger!RejectPayment, requests
<1>5. /\ DOMAIN payment' = DOMAIN payment
      /\ \A q \in DOMAIN payment : payment'[q].debt = payment[q].debt
      /\ \A q \in DOMAIN payment : q # p => payment'[q] = payment[q]
  BY <1>1
<1>6. IInv'
  <2>1. DOMAIN payment \subseteq Payments /\ \A q \in DOMAIN payment : payment[q].debt \in Debts
    BY DEF IInv, TablesOK
  <2> HIDE DEF p
  <2> QED
    BY <1>1, <1>2, <1>5, <2>1, EndsOK
<1> QED
  BY <1>2, <1>4, <1>6

\* A transaction that is rolled back is a marking request that ends, or nothing.
LEMMA RollsBack ==
  ASSUME IInv, NEW t \in Txs, Open(t), RollBack(t)
  PROVE  IInv' /\ (Ledger!RollBack(t) \/ UNCHANGED <<debt, payment, requests>>)
<1>1. End(t) /\ UNCHANGED <<debt, payment>>
  BY DEF RollBack
<1>2. IInv'
  <2>1. DOMAIN payment \subseteq Payments /\ \A p \in DOMAIN payment : payment[p].debt \in Debts
    BY DEF IInv, TablesOK
  <2> QED
    BY <1>1, <2>1, EndsOK
<1>3. CASE Marking(t)
  <2>1. requests[t] # Ledger!Idle
    <3>1. tx[t].request.kind \in {"mark", "bulk"}
      BY <1>3 DEF IInv, TxOK, Planned, Marking
    <3>2. requests[t].kind \in {"mark", "bulk"}
      BY <1>3, <3>1 DEF requests, MarkingRequest, Marking
    <3> QED
      BY <3>2 DEF Ledger!Idle
  <2>2. requests' = [requests EXCEPT ![t] = Ledger!Idle]
    BY <1>1, EndsInLedger
  <2> QED
    BY <1>1, <1>2, <2>1, <2>2 DEF Ledger!RollBack, requests
<1>4. CASE ~Marking(t)
  BY <1>1, <1>2, <1>4, ReviewEndsSilently
<1> QED
  BY <1>3, <1>4

\* A debt is decided in both; whoever has locked another row is not disturbed.
LEMMA Decides ==
  ASSUME IInv, NEW d \in Debts, Decide(d)
  PROVE  IInv' /\ Ledger!DebtStep
<1>1. holder[d] = Nobody /\ UNCHANGED <<tx, holder>>
  BY DEF Decide
<1>2. PICK user \in Users :
        \/ Ledger!AcceptDebt(d, user)
        \/ Ledger!RejectDebt(d, user)
        \/ \E amount \in Ledger!Amounts : Ledger!ReviewRejectedDebt(d, user, amount)
  BY DEF Decide
<1>3. UNCHANGED payment /\ \A e \in Debts : e # d => debt'[e] = debt[e]
  <2>1. CASE Ledger!AcceptDebt(d, user)
    BY <2>1 DEF Ledger!AcceptDebt
  <2>2. CASE Ledger!RejectDebt(d, user)
    BY <2>2 DEF Ledger!RejectDebt
  <2>3. ASSUME NEW amount \in Ledger!Amounts, Ledger!ReviewRejectedDebt(d, user, amount)
        PROVE  UNCHANGED payment /\ \A e \in Debts : e # d => debt'[e] = debt[e]
    BY <2>3 DEF Ledger!ReviewRejectedDebt
  <2> QED
    BY <1>2, <2>1, <2>2, <2>3
<1>4. ASSUME NEW u \in Txs PROVE Spared(u)
  BY <1>1, <1>3, TransactionsAssumption DEF Spared, Row
<1>5. TablesOK'
  BY <1>1, <1>3 DEF IInv, TablesOK
<1>6. IInv'
  BY <1>4, <1>5, OthersKeep DEF IInv
<1> QED
  BY <1>2, <1>6 DEF Ledger!DebtStep

-------------------------------------------------------------------------------
(* The theorems. *)

LEMMA InitOK == Init => IInv /\ Ledger!Init
<1> SUFFICES ASSUME Init PROVE IInv
  BY DEF Init
<1>1. ASSUME NEW t \in Txs PROVE TxOK(t)
  <2>1. tx[t] = Closed /\ \A x \in Rows : holder[x] # t
    BY TransactionsAssumption DEF Init
  <2> QED
    BY <2>1, ClosedIsOK
<1>2. TablesOK
  BY DEF Init, Ledger!Init, TablesOK
<1> QED
  BY <1>1, <1>2 DEF IInv

\* Every step keeps the invariant and is a step of Ledger or none at all.
LEMMA StepOK == IInv /\ [Next]_vars => IInv' /\ [Ledger!Next]_(Ledger!vars)
<1> SUFFICES ASSUME IInv, [Next]_vars PROVE IInv' /\ [Ledger!Next]_(Ledger!vars)
  OBVIOUS
<1> DEFINE Silent == UNCHANGED <<debt, payment, requests>>
<1>1. ASSUME NEW t \in Txs, Begin(t) PROVE IInv' /\ (Ledger!Next \/ Silent)
  <2>1. ASSUME NEW user \in Users, NEW d \in Debts, NEW amount \in Ledger!Amounts,
               MarkBegin(t, user, d, amount)
        PROVE  IInv' /\ Ledger!Next
    BY <2>1, MarkBegins DEF Ledger!Next, Ledger!MarkStep
  <2>2. ASSUME NEW user \in Users, NEW receiver \in Users, NEW amount \in Ledger!Amounts,
               BulkMarkBegin(t, user, receiver, amount)
        PROVE  IInv' /\ Ledger!Next
    BY <2>2, BulkMarkBegins DEF Ledger!Next, Ledger!MarkStep
  <2>3. ASSUME NEW op \in {"confirm", "reject"}, NEW user \in Users, NEW p \in DOMAIN payment,
               ReviewBegin(t, op, user, p)
        PROVE  IInv' /\ Silent
    BY <2>3, ReviewBegins
  <2> QED
    BY <1>1, <2>1, <2>2, <2>3 DEF Begin
<1>2. ASSUME NEW t \in Txs, Lock(t) PROVE IInv' /\ Silent
  BY <1>2, LockIsSilent
<1>3. ASSUME NEW t \in Txs, Open(t), RollBack(t) PROVE IInv' /\ (Ledger!Next \/ Silent)
  BY <1>3, RollsBack DEF Ledger!Next, Ledger!MarkStep
<1>4. ASSUME NEW t \in Txs, Finish(t) PROVE IInv' /\ (Ledger!Next \/ Silent)
  <2>1. CASE MarkCommit(t)
    BY <2>1, MarkCommits DEF Ledger!Next, Ledger!MarkStep
  <2>2. CASE BulkMarkCommit(t)
    BY <2>2, BulkMarkCommits DEF Ledger!Next, Ledger!MarkStep
  <2>3. CASE ConfirmCommit(t)
    BY <2>3, ConfirmCommits DEF Ledger!Next, Ledger!ReviewStep
  <2>4. CASE RejectCommit(t)
    BY <2>4, RejectCommits DEF Ledger!Next, Ledger!ReviewStep
  <2>5. CASE Refuse(t)
    BY <1>3, <2>5 DEF Refuse
  <2> QED
    BY <1>4, <2>1, <2>2, <2>3, <2>4, <2>5 DEF Finish
<1>5. ASSUME NEW t \in Txs, BreakDeadlock(t) PROVE IInv' /\ (Ledger!Next \/ Silent)
  <2>1. Open(t) /\ RollBack(t)
    BY <1>5 DEF BreakDeadlock, Knot, WaitsFor, Waits
  <2> QED
    BY <1>3, <2>1
<1>6. ASSUME NEW d \in Debts, Decide(d) PROVE IInv' /\ Ledger!Next
  BY <1>6, Decides DEF Ledger!Next
<1>7. CASE Next
  BY <1>1, <1>2, <1>3, <1>4, <1>5, <1>6, <1>7 DEF Next, Cancel, Ledger!vars, requests
<1>8. CASE UNCHANGED vars
  <2>1. Silent
    BY <1>8 DEF vars, requests, MarkingRequest
  <2>2. \A u \in Txs : Spared(u)
    BY <1>8 DEF vars, Spared, Row
  <2>3. IInv'
    BY <1>8, <2>2, OthersKeep DEF IInv, TablesOK, vars
  <2> QED
    BY <2>1, <2>3 DEF Ledger!vars, requests
<1> QED
  BY <1>7, <1>8

\* The transactions implement the ledger: whatever waits, overlaps or is rolled
\* back, what they commit is a behaviour of Ledger, one step each.
THEOREM TransactionsImplementLedger == Spec => ImplementsLedger
<1>1. Init => IInv /\ Ledger!Init
  BY InitOK
<1>2. IInv /\ [Next]_vars => IInv' /\ [Ledger!Next]_(Ledger!vars)
  BY StepOK
<1> QED
  BY <1>1, <1>2, PTL DEF Spec, ImplementsLedger, Ledger!Spec

\* A transaction in a circle holds a row and waits for another.
LEMMA CirclesAreOfBulkMarks == IInv => OnlyBulkMarksDeadlock
<1> SUFFICES ASSUME IInv, NEW S \in SUBSET Txs, Knot(S), NEW t \in S PROVE tx[t].op = "bulk"
  BY DEF OnlyBulkMarksDeadlock
<1>1. ASSUME NEW a \in S
      PROVE  /\ TxOK(a) /\ Open(a) /\ tx[a].locked \in 1..(Len(tx[a].plan) - 1)
             /\ Wanted(a) = tx[a].plan[tx[a].locked + 1]
  <2>1. PICK b \in S : WaitsFor(b, a)
    BY DEF Knot
  <2>2. PICK c \in S : WaitsFor(a, c)
    BY DEF Knot
  <2>3. TxOK(a) /\ TxOK(b)
    BY DEF IInv
  <2>4. Wanted(b) \in Rows /\ holder[Wanted(b)] = a
    BY <2>1, <2>3 DEF WaitsFor, Waits, AllLocked, Wanted, TxOK, Shaped, TxRecord
  <2>5. tx[a].locked # 0
    BY <2>3, <2>4 DEF TxOK, Locking
  <2> QED
    BY <2>2, <2>3, <2>5 DEF WaitsFor, Waits, AllLocked, Wanted, TxOK, Shaped, TxRecord
<1>2. ASSUME NEW a \in S PROVE tx[a].op = "bulk" \/ Reviews(a)
  <2>1. tx[a].op # "mark"
    BY <1>1, SMTT(30) DEF TxOK, Planned
  <2> QED
    BY <1>1, <2>1 DEF Open, TxOK, Shaped, TxRecord, Reviews
<1>3. ASSUME NEW a \in S PROVE Wanted(a) \in Debts
  <2>1. CASE tx[a].op = "bulk"
    <3>1. tx[a].locked + 1 \in 1..Len(tx[a].plan)
      BY <1>1 DEF TxOK, Shaped, TxRecord
    <3>2. /\ tx[a].request.seen \subseteq Debts
          /\ tx[a].request.seen = {tx[a].plan[i] : i \in 1..Len(tx[a].plan)}
      BY <1>1, <2>1 DEF TxOK, Planned
    <3> QED
      BY <1>1, <3>1, <3>2
  <2>2. CASE Reviews(a)
    <3>1. /\ tx[a].plan = <<tx[a].request.payment, tx[a].request.debt>>
          /\ tx[a].request.debt \in Debts
      BY <1>1, <2>2 DEF TxOK, Planned, IInv, TablesOK
    <3>2. tx[a].locked = 1
      <4>1. Len(tx[a].plan) = 2
        BY <3>1
      <4>2. tx[a].locked \in 1..(Len(tx[a].plan) - 1)
        BY <1>1
      <4> QED
        BY <4>1, <4>2
    <3> QED
      BY <1>1, <3>1, <3>2
  <2> QED
    BY <1>2, <2>1, <2>2
<1>4. PICK b \in S : WaitsFor(b, t)
  BY DEF Knot
<1>5. Wanted(b) \in Debts /\ holder[Wanted(b)] = t
  BY <1>3, <1>4 DEF WaitsFor
<1>6. ~Reviews(t)
  <2> SUFFICES ASSUME Reviews(t) PROVE FALSE
    OBVIOUS
  <2>1. /\ tx[t].plan = <<tx[t].request.payment, tx[t].request.debt>>
        /\ tx[t].request.payment \in Payments
    BY <1>1 DEF TxOK, Planned, IInv, TablesOK
  <2>2. tx[t].locked = 1
    <3>1. Len(tx[t].plan) = 2
      BY <2>1
    <3>2. tx[t].locked \in 1..(Len(tx[t].plan) - 1)
      BY <1>1
    <3> QED
      BY <3>1, <3>2
  <2>3. Wanted(b) \in {tx[t].plan[i] : i \in 1..tx[t].locked}
    BY <1>1, <1>5 DEF TxOK, Locking, Rows
  <2>4. Wanted(b) = tx[t].request.payment
    BY <2>1, <2>2, <2>3
  <2> QED
    BY <1>5, <2>1, <2>4, TransactionsAssumption
<1> QED
  BY <1>2, <1>6

\* Only bulk marks are ever in a circle of waiting transactions, however many
\* transactions it has: a mark holds nothing while it waits, and a review
\* holds only its payment, which nobody who holds anything waits for.
THEOREM OnlyBulkMarksWaitInCircles == Spec => []OnlyBulkMarksDeadlock
<1>1. IInv => OnlyBulkMarksDeadlock
  BY CirclesAreOfBulkMarks
<1>2. Init => IInv
  BY InitOK
<1>3. IInv /\ [Next]_vars => IInv'
  BY StepOK
<1> QED
  BY <1>1, <1>2, <1>3, PTL DEF Spec

\* Locks and reads go together: a row is held by the one transaction that has
\* read it, from the read to the end of the transaction.
THEOREM LocksAreTyped == Spec => []TypeOK
<1>1. IInv => TypeOK
  <2> SUFFICES ASSUME IInv, NEW t \in Txs
               PROVE  /\ tx[t].locked \in 0..Len(tx[t].plan)
                      /\ {x \in Rows : holder[x] = t} = {tx[t].plan[i] : i \in 1..tx[t].locked}
                      /\ DOMAIN tx[t].saw = {x \in Rows : holder[x] = t}
    BY DEF IInv, TablesOK, TypeOK
  <2>1. TxOK(t)
    BY DEF IInv
  <2>2. {tx[t].plan[i] : i \in 1..tx[t].locked} \subseteq Rows
    BY <2>1 DEF TxOK, Shaped, TxRecord
  <2> QED
    BY <2>1, <2>2 DEF TxOK, Shaped, Locking
<1>2. Init => IInv
  BY InitOK
<1>3. IInv /\ [Next]_vars => IInv'
  BY StepOK
<1> QED
  BY <1>1, <1>2, <1>3, PTL DEF Spec

-------------------------------------------------------------------------------
(* What is proved of Ledger holds of what the transactions commit. *)

Books == INSTANCE LedgerProofs WITH
    Requests <- Txs,
    request <- [t \in Txs |-> MarkingRequest(t)]

\* Books and Ledger are instances of the same definitions; the provers have to
\* be told one by one.
LEMMA SameOperators ==
  /\ Ledger!Amounts = Books!Amounts /\ Ledger!Idle = Books!Idle /\ Ledger!FreshIds = Books!FreshIds
  /\ \A S : Ledger!Cardinality(S) = Books!Cardinality(S)
  /\ \A S, T : Ledger!Bijection(S, T) = Books!Bijection(S, T)
  /\ \A f : Ledger!Total(f) = Books!Total(f)
  /\ \A d : Ledger!PendingTotal(d) = Books!PendingTotal(d)
  /\ \A d : Ledger!ConfirmedTotal(d) = Books!ConfirmedTotal(d)
  /\ \A d, s : Ledger!PaymentsOn(d, s) = Books!PaymentsOn(d, s)
  /\ \A rows : Ledger!InsertPayments(rows) <=> Books!InsertPayments(rows)
  /\ \A d, u, v : Ledger!BulkPayable(d, u, v) <=> Books!BulkPayable(d, u, v)
  /\ \A row, n : Ledger!PaidDown(row, n) = Books!PaidDown(row, n)
  /\ \A req : Ledger!CanMark(req) <=> Books!CanMark(req)
  /\ \A req : Ledger!Locked(req) = Books!Locked(req)
  /\ \A req : Ledger!Available(req) = Books!Available(req)
  /\ \A left, order, n : Ledger!Allocates(left, order, n) <=> Books!Allocates(left, order, n)
<1>1. Ledger!Amounts = Books!Amounts /\ Ledger!Idle = Books!Idle /\ Ledger!FreshIds = Books!FreshIds
  BY DEF Ledger!Amounts, Books!Amounts, Ledger!Idle, Books!Idle, Ledger!FreshIds, Books!FreshIds
<1>2. ASSUME NEW S PROVE Ledger!Cardinality(S) = Books!Cardinality(S)
  BY Zenon DEF Ledger!Cardinality, Books!Cardinality, Ledger!IsFiniteSet, Books!IsFiniteSet
<1>3. ASSUME NEW S, NEW T PROVE Ledger!Bijection(S, T) = Books!Bijection(S, T)
  BY DEF Ledger!Bijection, Books!Bijection, Ledger!Injection, Books!Injection, Ledger!Surjection,
         Books!Surjection, Ledger!IsInjective, Books!IsInjective
<1>4. ASSUME NEW f PROVE Ledger!Total(f) = Books!Total(f)
  BY <1>1, <1>2 DEF Ledger!Total, Books!Total, Ledger!Units, Books!Units
<1>5. ASSUME NEW d, NEW s PROVE Ledger!PaymentsOn(d, s) = Books!PaymentsOn(d, s)
  BY DEF Ledger!PaymentsOn, Books!PaymentsOn
<1>6. ASSUME NEW d PROVE /\ Ledger!PendingTotal(d) = Books!PendingTotal(d)
                         /\ Ledger!ConfirmedTotal(d) = Books!ConfirmedTotal(d)
  BY <1>4, <1>5 DEF Ledger!PendingTotal, Books!PendingTotal, Ledger!ConfirmedTotal,
         Books!ConfirmedTotal, Ledger!AmountsOf, Books!AmountsOf
<1>7. ASSUME NEW rows PROVE Ledger!InsertPayments(rows) <=> Books!InsertPayments(rows)
  BY DEF Ledger!InsertPayments, Books!InsertPayments
<1>8. ASSUME NEW d, NEW u, NEW v PROVE Ledger!BulkPayable(d, u, v) <=> Books!BulkPayable(d, u, v)
  BY DEF Ledger!BulkPayable, Books!BulkPayable, Ledger!PayableStatuses, Books!PayableStatuses
<1>9. ASSUME NEW row, NEW n PROVE Ledger!PaidDown(row, n) = Books!PaidDown(row, n)
  BY Zenon DEF Ledger!PaidDown, Books!PaidDown
<1>10. ASSUME NEW req PROVE /\ Ledger!CanMark(req) <=> Books!CanMark(req)
                            /\ Ledger!Locked(req) = Books!Locked(req)
  BY <1>8 DEF Ledger!CanMark, Books!CanMark, Ledger!PayableStatuses, Books!PayableStatuses,
         Ledger!Locked, Books!Locked
<1>11. ASSUME NEW req PROVE Ledger!Available(req) = Books!Available(req)
  BY <1>10 DEF Ledger!Available, Books!Available
<1>12. ASSUME NEW left, NEW order, NEW n
       PROVE  Ledger!Allocates(left, order, n) <=> Books!Allocates(left, order, n)
  BY Zenon DEF Ledger!Allocates, Books!Allocates, Ledger!Least, Books!Least
<1> QED
  BY <1>1, <1>2, <1>3, <1>4, <1>5, <1>6, <1>7, <1>8, <1>9, <1>10, <1>11, <1>12

\* Nor are the two specifications.
LEMMA SameSpec ==
  /\ Ledger!Init => Books!Init
  /\ [Ledger!Next]_(Ledger!vars) => [Books!Next]_(Books!vars)
<1>1. Ledger!Init => Books!Init
  BY DEF Ledger!Init, Books!Init, Ledger!Amounts, Books!Amounts, Ledger!Idle, Books!Idle
<1> HIDE DEF MarkingRequest
<1>2. Ledger!DebtStep => Books!DebtStep
  BY SameOperators, Zenon DEF Ledger!DebtStep, Books!DebtStep, Ledger!AcceptDebt,
     Books!AcceptDebt, Ledger!RejectDebt, Books!RejectDebt, Ledger!ReviewRejectedDebt,
     Books!ReviewRejectedDebt
<1>3. Ledger!ReviewStep => Books!ReviewStep
  BY SameOperators, Zenon DEF Ledger!ReviewStep, Books!ReviewStep, Ledger!ConfirmPayment,
     Books!ConfirmPayment, Ledger!RejectPayment, Books!RejectPayment, Ledger!PayableStatuses,
     Books!PayableStatuses
<1>4. ASSUME NEW r \in Txs, NEW user \in Users, NEW d \in Debts, NEW amount \in Ledger!Amounts,
             Ledger!MarkBegin(r, user, d, amount)
      PROVE  Books!MarkStep
  BY <1>4, SameOperators DEF Ledger!MarkBegin, Books!MarkBegin, Books!MarkStep
<1>5. ASSUME NEW r \in Txs, Ledger!MarkCommit(r) PROVE Books!MarkStep
  BY <1>5, SameOperators DEF Ledger!MarkCommit, Books!MarkCommit, Books!MarkStep
<1>6. ASSUME NEW r \in Txs, NEW user \in Users, NEW receiver \in Users,
             NEW amount \in Ledger!Amounts, Ledger!BulkMarkBegin(r, user, receiver, amount)
      PROVE  Books!MarkStep
  <2>1. {d \in Debts : /\ Ledger!BulkPayable(d, user, receiver)
                       /\ Ledger!PaymentsOn(d, "pending_confirmation") = {}}
          = {d \in Debts : /\ Books!BulkPayable(d, user, receiver)
                           /\ Books!PaymentsOn(d, "pending_confirmation") = {}}
    BY SameOperators
  <2>2. Books!BulkMarkBegin(r, user, receiver, amount)
    BY <1>6, <2>1, SameOperators DEF Ledger!BulkMarkBegin, Books!BulkMarkBegin
  <2> QED
    BY <2>2, SameOperators DEF Books!MarkStep
<1>7. ASSUME NEW r \in Txs, Ledger!BulkMarkCommit(r) PROVE Books!MarkStep
  <2> DEFINE req == [t \in Txs |-> MarkingRequest(t)][r]
             n == Ledger!Cardinality(Ledger!Locked(req))
             m == Books!Cardinality(Books!Locked(req))
             new(ids, at, order, left) ==
               [p \in ids |->
                  [status |-> "pending_confirmation", debt |-> order[at[p]],
                   paidBy |-> req.user, receivedBy |-> req.receiver,
                   amount |-> left[at[p] - 1] - left[at[p]]]]
  <2>0. n = m
    BY SameOperators
  <2>1. PICK order \in Ledger!Bijection(1..n, Ledger!Locked(req)),
             left \in [0..n -> 0..req.amount] :
          /\ Ledger!Allocates(left, order, req.amount)
          /\ \E ids \in SUBSET Ledger!FreshIds :
             \E at \in Ledger!Bijection(ids, {i \in 1..n : left[i - 1] # 0}) :
               Ledger!InsertPayments(new(ids, at, order, left))
    BY <1>7 DEF Ledger!BulkMarkCommit
  <2>2. PICK ids \in SUBSET Ledger!FreshIds :
          \E at \in Ledger!Bijection(ids, {i \in 1..n : left[i - 1] # 0}) :
            Ledger!InsertPayments(new(ids, at, order, left))
    BY <2>1
  <2>3. PICK at \in Ledger!Bijection(ids, {i \in 1..n : left[i - 1] # 0}) :
          Ledger!InsertPayments(new(ids, at, order, left))
    BY <2>2
  <2> HIDE DEF n, m, new
  <2>4. /\ order \in Books!Bijection(1..m, Books!Locked(req)) /\ left \in [0..m -> 0..req.amount]
        /\ Books!Allocates(left, order, req.amount)
        /\ ids \in SUBSET Books!FreshIds
        /\ at \in Books!Bijection(ids, {i \in 1..m : left[i - 1] # 0})
        /\ Books!InsertPayments(new(ids, at, order, left))
    BY <2>0, <2>1, <2>2, <2>3, SameOperators
  <2>5. \E o \in Books!Bijection(1..m, Books!Locked(req)), l \in [0..m -> 0..req.amount] :
          /\ Books!Allocates(l, o, req.amount)
          /\ \E I \in SUBSET Books!FreshIds :
             \E a \in Books!Bijection(I, {i \in 1..m : l[i - 1] # 0}) :
               Books!InsertPayments(new(I, a, o, l))
    BY <2>4
  <2>6. /\ req.kind = "bulk" /\ Books!Locked(req) # {}
        /\ req.amount <= Books!Total(Books!Available(req))
        /\ [t \in Txs |-> MarkingRequest(t)]'
             = [[t \in Txs |-> MarkingRequest(t)] EXCEPT ![r] = Books!Idle]
        /\ UNCHANGED debt
    BY <1>7, SameOperators DEF Ledger!BulkMarkCommit
  <2>7. Books!BulkMarkCommit(r)
    BY <2>5, <2>6 DEF Books!BulkMarkCommit, m, new
  <2> QED
    BY <2>7, SameOperators DEF Books!MarkStep
<1>8. ASSUME NEW r \in Txs, Ledger!RollBack(r) PROVE Books!MarkStep
  BY <1>8, SameOperators DEF Ledger!RollBack, Books!RollBack, Books!MarkStep
<1>9. Ledger!MarkStep => Books!MarkStep
  BY <1>4, <1>5, <1>6, <1>7, <1>8 DEF Ledger!MarkStep
<1>10. Ledger!vars = Books!vars
  BY DEF Ledger!vars, Books!vars
<1> QED
  BY <1>1, <1>2, <1>3, <1>9, <1>10 DEF Ledger!Next, Books!Next, Ledger!vars, Books!vars

\* The invariant of LedgerProofs.
LEMMA BooksHold ==
  /\ Init => Books!Inv
  /\ IInv /\ Books!Inv /\ [Next]_vars => Books!Inv'
<1>1. Books!LedgerAssumption
  BY TransactionsAssumption DEF Books!LedgerAssumption, Books!IsFiniteSet, IsFiniteSet
<1>2. Init => Books!Inv
  BY <1>1, InitOK, SameSpec, Books!InitInv
<1>3. Books!Inv /\ [Books!Next]_(Books!vars) => Books!Inv'
  BY <1>1, Books!NextInv
<1> QED
  BY <1>2, <1>3, StepOK, SameSpec

\* What the transactions commit keeps the books: money is conserved, a status
\* tells what is left, no payment is on a debt its debtor has not taken on, and
\* none is larger than its debt or between others than its parties.
THEOREM TransactionsKeepTheBooks ==
  Spec => [](/\ Ledger!MoneyConserved
             /\ Ledger!StatusTellsRemaining
             /\ Ledger!PaymentsNeedAcceptance
             /\ Ledger!PaymentFitsDebt)
<1>1. Books!Inv => /\ Ledger!MoneyConserved
                   /\ Ledger!StatusTellsRemaining
                   /\ Ledger!PaymentsNeedAcceptance
                   /\ Ledger!PaymentFitsDebt
  <2> SUFFICES ASSUME Books!Inv
               PROVE  /\ Ledger!MoneyConserved
                      /\ Ledger!StatusTellsRemaining
                      /\ Ledger!PaymentsNeedAcceptance
                      /\ Ledger!PaymentFitsDebt
    OBVIOUS
  <2>1. Ledger!MoneyConserved
    BY SameOperators DEF Books!Inv, Books!MoneyConserved, Ledger!MoneyConserved
  <2>2. Ledger!StatusTellsRemaining
    BY DEF Books!Inv, Books!StatusTellsRemaining, Ledger!StatusTellsRemaining
  <2>3. Ledger!PaymentsNeedAcceptance
    BY DEF Books!Inv, Books!PaymentsNeedAcceptance, Ledger!PaymentsNeedAcceptance
  <2>4. Ledger!PaymentFitsDebt
    BY DEF Books!Inv, Books!PaymentFitsDebt, Ledger!PaymentFitsDebt
  <2> QED
    BY <2>1, <2>2, <2>3, <2>4
<1>2. Init => IInv /\ Books!Inv
  BY InitOK, BooksHold
<1>3. IInv /\ Books!Inv /\ [Next]_vars => (IInv /\ Books!Inv)'
  BY StepOK, BooksHold
<1> QED
  BY <1>1, <1>2, <1>3, PTL DEF Spec

-------------------------------------------------------------------------------
(* The order in which debts are locked. *)

Accepted(d) == debt[d].status \notin {"pending", "rejected"}

\* Time goes one way, and only debts and open reviews have one.
TimesOK ==
    /\ older \subseteq Dated \X Dated
    /\ \A x, y : <<x, y>> \in older => <<y, x>> \notin older

\* Bulk mark t locks d before e.
LocksBefore(t, d, e) ==
    \E i, j \in 1..Len(tx[t].plan) : i < j /\ tx[t].plan[i] = d /\ tx[t].plan[j] = e

\* What t saw of d at its start is still what is left of it.
Current(t, d) == tx[t].request.owed[d] = debt[d].remaining

\* A bulk mark has seen accepted debts, of which only confirmations have taken
\* since, and locks those that none has taken from in the order they still have.
SeenOK(t) ==
    tx[t].op = "bulk" =>
      /\ \A d \in tx[t].request.seen :
           /\ Accepted(d)
           /\ tx[t].request.owed[d] \in Nat
           /\ debt[d].remaining <= tx[t].request.owed[d]
      /\ \A d, e : LocksBefore(t, d, e) /\ Current(t, d) /\ Current(t, e) => <<d, e>> \in older

\* Two bulk marks that saw the same of two debts lock them in the same order.
Agree(t, u) ==
    tx[t].op = "bulk" /\ tx[u].op = "bulk" =>
      \A d, e : LocksBefore(t, d, e) /\ LocksBefore(u, e, d) =>
        \/ tx[t].request.owed[d] # tx[u].request.owed[d]
        \/ tx[t].request.owed[e] # tx[u].request.owed[e]

OrderInv ==
    /\ TimesOK
    /\ \A t \in Txs : SeenOK(t)
    /\ \A t, u \in Txs : Agree(t, u)

\* What a step does to accepted debts: it leaves or lowers what is left of
\* them, and those that it leaves keep their order.
DebtsAge ==
    /\ \A d \in Debts : Accepted(d) =>
         Accepted(d)' /\ debt'[d].remaining <= debt[d].remaining
    /\ \A d, e \in Debts :
         /\ <<d, e>> \in older /\ Accepted(d) /\ Accepted(e)
         /\ debt'[d].remaining = debt[d].remaining
         /\ debt'[e].remaining = debt[e].remaining
         => <<d, e>> \in older'

\* No bulk mark begins, and those that go on are as they were.
NoBulkBegins == \A u \in Txs : tx'[u] = tx[u] \/ tx'[u].op # "bulk"

\* The amounts are numbers.
LEMMA BooksTyped ==
  ASSUME Books!Inv
  PROVE  /\ \A d \in Debts : debt[d].remaining \in 0..MaxAmount
         /\ \A p \in DOMAIN payment : payment[p].amount \in 1..MaxAmount
         /\ MaxAmount \in Nat
BY TransactionsAssumption
   DEF Books!Inv, Books!TypeOK, Books!DebtRow, Books!PaymentRow, Books!Amounts

\* The debts that a bulk mark locks are those it has seen.
LEMMA LocksSeen ==
  ASSUME IInv, NEW t \in Txs, tx[t].op = "bulk", NEW d, NEW e, LocksBefore(t, d, e)
  PROVE  d \in tx[t].request.seen /\ e \in tx[t].request.seen /\ d \in Debts /\ e \in Debts
BY DEF IInv, TxOK, Planned, LocksBefore

\* A step that lets debts age keeps what holds of the bulk marks that go on.
LEMMA MarksKeep ==
  ASSUME IInv, Books!Inv, Books!Inv', OrderInv, DebtsAge, NEW u \in Txs,
         tx'[u] = tx[u] \/ tx'[u].op # "bulk"
  PROVE  SeenOK(u)'
<1> SUFFICES ASSUME tx[u].op = "bulk", tx'[u] = tx[u] PROVE SeenOK(u)'
  BY DEF SeenOK
<1>1. SeenOK(u)
  BY DEF OrderInv
<1>2. tx[u].request.seen \subseteq Debts
  BY DEF IInv, TxOK, Planned
<1>3. \A d \in Debts : debt[d].remaining \in Nat
  BY BooksTyped
<1>4. \A d \in Debts : debt'[d].remaining \in Nat
  BY Books!Inv', TransactionsAssumption DEF Books!Inv, Books!TypeOK, Books!DebtRow
<1>5. ASSUME NEW d \in tx[u].request.seen
      PROVE  /\ Accepted(d)' /\ tx[u].request.owed[d] \in Nat
             /\ debt'[d].remaining <= tx[u].request.owed[d]
             /\ tx[u].request.owed[d] = debt'[d].remaining =>
                  Current(u, d) /\ debt'[d].remaining = debt[d].remaining
  BY <1>1, <1>2, <1>3, <1>4 DEF SeenOK, DebtsAge, Current
<1>6. ASSUME NEW d, NEW e, LocksBefore(u, d, e),
             tx[u].request.owed[d] = debt'[d].remaining, tx[u].request.owed[e] = debt'[e].remaining
      PROVE  <<d, e>> \in older'
  <2>1. d \in tx[u].request.seen /\ e \in tx[u].request.seen /\ d \in Debts /\ e \in Debts
    BY <1>6, LocksSeen
  <2>2. <<d, e>> \in older /\ Accepted(d) /\ Accepted(e)
    BY <1>1, <1>5, <1>6, <2>1 DEF SeenOK
  <2> QED
    BY <1>5, <1>6, <2>1, <2>2 DEF DebtsAge
<1> QED
  BY <1>5, <1>6 DEF SeenOK, LocksBefore, Current

\* A step in which no bulk mark begins keeps the invariant if times go on as
\* they should.
LEMMA OrderKept ==
  ASSUME IInv, Books!Inv, Books!Inv', OrderInv, DebtsAge, TimesOK',
         NoBulkBegins
  PROVE  OrderInv'
<1>1. \A u \in Txs : SeenOK(u)'
  BY MarksKeep DEF NoBulkBegins
<1>2. ASSUME NEW t \in Txs, NEW u \in Txs PROVE Agree(t, u)'
  <2> SUFFICES ASSUME tx'[t].op = "bulk", tx'[u].op = "bulk" PROVE Agree(t, u)'
    BY DEF Agree
  <2>1. tx'[t] = tx[t] /\ tx'[u] = tx[u] /\ Agree(t, u)
    BY DEF OrderInv, NoBulkBegins
  <2>2. \A d, e : /\ LocksBefore(t, d, e)' = LocksBefore(t, d, e)
                 /\ LocksBefore(u, d, e)' = LocksBefore(u, d, e)
    BY <2>1 DEF LocksBefore
  <2> QED
    BY <2>1, <2>2 DEF Agree
<1> QED
  BY <1>1, <1>2 DEF OrderInv

\* Nothing happens to the times and the debts.
LEMMA NothingAges ==
  ASSUME IInv, Books!Inv, OrderInv, UNCHANGED <<debt, older>>,
         \A u \in Txs : Reviews(u)' <=> Reviews(u)
  PROVE  DebtsAge /\ TimesOK'
<1>1. \A d \in Debts : debt[d].remaining \in Nat
  BY BooksTyped
<1>2. DebtsAge
  BY <1>1 DEF DebtsAge, Accepted
<1>3. Dated' = Dated
  BY DEF Dated, Reviews
<1> QED
  BY <1>2, <1>3 DEF TimesOK, OrderInv

\* A review begins: it is younger than all.
LEMMA ReviewBeginsLater ==
  ASSUME IInv, Books!Inv, OrderInv, NEW t \in Txs, NEW op \in {"confirm", "reject"}, NEW user,
         NEW p \in DOMAIN payment, ReviewBegin(t, op, user, p)
  PROVE  DebtsAge /\ TimesOK' /\ NoBulkBegins
<1>1. tx'[t].op = op /\ \A u \in Txs : u # t => tx'[u] = tx[u]
  BY DEF ReviewBegin, Started, IInv, TablesOK
<1>2. ~Open(t) /\ older' = older \cup (Dated \X {t}) /\ UNCHANGED debt
  BY DEF ReviewBegin
<1>3. t \notin Dated
  BY <1>2, TransactionsAssumption DEF Dated, Open
<1>4. Dated' = Dated \cup {t}
  BY <1>1 DEF Dated
<1>5. \A d \in Debts : debt[d].remaining \in Nat
  BY BooksTyped
<1>6. DebtsAge
  BY <1>2, <1>5 DEF DebtsAge, Accepted
<1>7. TimesOK'
  BY <1>2, <1>3, <1>4 DEF TimesOK, OrderInv
<1> QED
  BY <1>1, <1>6, <1>7 DEF NoBulkBegins

\* A transaction ends and its time is forgotten, or it had none.
LEMMA EndsForgotten ==
  ASSUME IInv, Books!Inv, OrderInv, NEW t \in Txs, End(t), UNCHANGED debt,
         older' = Forget(t)
  PROVE  DebtsAge /\ TimesOK' /\ NoBulkBegins
<1>1. tx'[t].op = "none" /\ \A u \in Txs : u # t => tx'[u] = tx[u]
  BY DEF End, Closed, Started, IInv, TablesOK
<1>2. Dated' = Dated \ {t}
  BY <1>1, TransactionsAssumption DEF Dated
<1>3. \A d \in Debts : debt[d].remaining \in Nat
  BY BooksTyped
<1>4. DebtsAge
  BY <1>3, TransactionsAssumption DEF DebtsAge, Accepted, Forget
<1>5. TimesOK'
  BY <1>2 DEF TimesOK, OrderInv, Forget
<1> QED
  BY <1>1, <1>4, <1>5 DEF NoBulkBegins

\* A confirmation takes from its debt, which gets the time of the confirmation.
LEMMA ConfirmAges ==
  ASSUME IInv, Books!Inv, OrderInv, NEW t \in Txs, ConfirmCommit(t)
  PROVE  DebtsAge /\ TimesOK' /\ NoBulkBegins
<1> DEFINE p == tx[t].request.payment
<1>1. /\ tx[t].op = "confirm" /\ AllLocked(t) /\ CanConfirm(t) /\ End(t)
      /\ debt' = [debt EXCEPT ![tx[t].request.debt] =
                    Ledger!PaidDown(@, tx[t].saw[p].amount)]
      /\ older' = Touched(tx[t].request.debt, t)
  BY DEF ConfirmCommit
<1>2. PICK d \in Debts : /\ d = tx[t].request.debt
                        /\ p \in DOMAIN payment /\ tx[t].saw[p] = payment[p]
  BY <1>1, ReviewReads DEF Reviews
<1> DEFINE renamed(x) == IF x = t THEN d ELSE x
<1>3. tx'[t].op = "none" /\ \A u \in Txs : u # t => tx'[u] = tx[u]
  BY <1>1 DEF End, Closed, Started, IInv, TablesOK
<1>4. Dated' = Dated \ {t} /\ d \in Dated /\ t \in Dated /\ d # t
  BY <1>1, <1>2, <1>3, TransactionsAssumption DEF Dated
<1>5. older' = {<<renamed(pair[1]), renamed(pair[2])>> : pair \in Forget(d)}
  BY <1>1, <1>2 DEF Touched
<1>6. \A v, w : <<v, w>> \in older /\ {d, t} \cap {v, w} = {} => <<v, w>> \in older'
  <2> SUFFICES ASSUME NEW v, NEW w, <<v, w>> \in older, {d, t} \cap {v, w} = {}
               PROVE  <<v, w>> \in older'
    OBVIOUS
  <2>1. <<v, w>> \in Forget(d)
    BY DEF Forget
  <2>2. renamed(v) = v /\ renamed(w) = w
    OBVIOUS
  <2> QED
    BY <1>5, <2>1, <2>2
<1>7. TimesOK'
  <2>1. \A x \in Dated : x # d => renamed(x) \in Dated'
    BY <1>4
  <2>2. \A x, y \in Dated : x # d /\ y # d /\ renamed(x) = renamed(y) => x = y
    BY DEF renamed
  <2>3. older \subseteq Dated \X Dated /\ \A x, y : <<x, y>> \in older => <<y, x>> \notin older
    BY DEF OrderInv, TimesOK
  <2>4. older' \subseteq Dated' \X Dated'
    <3> SUFFICES ASSUME NEW pair \in Forget(d)
                 PROVE  <<renamed(pair[1]), renamed(pair[2])>> \in Dated' \X Dated'
      BY <1>5
    <3>1. pair \in older /\ d \notin {pair[1], pair[2]}
      BY DEF Forget
    <3> QED
      BY <2>1, <2>3, <3>1
  <2>5. ASSUME NEW x, NEW y, <<x, y>> \in older', <<y, x>> \in older' PROVE FALSE
    <3>1. PICK v \in Forget(d) : <<x, y>> = <<renamed(v[1]), renamed(v[2])>>
      BY <1>5, <2>5
    <3>2. PICK w \in Forget(d) : <<y, x>> = <<renamed(w[1]), renamed(w[2])>>
      BY <1>5, <2>5
    <3>3. /\ v \in older /\ d \notin {v[1], v[2]} /\ v = <<v[1], v[2]>>
          /\ w \in older /\ d \notin {w[1], w[2]} /\ w = <<w[1], w[2]>>
      BY <2>3 DEF Forget
    <3>4. v[1] = w[2] /\ v[2] = w[1]
      BY <2>2, <2>3, <3>1, <3>2, <3>3
    <3> QED
      BY <2>3, <3>3, <3>4
  <2> QED
    BY <2>4, <2>5 DEF TimesOK
<1>8. DebtsAge
  <2>1. \A e \in Debts : debt[e].remaining \in Nat /\ payment[p].amount \in Nat \ {0}
    BY <1>2, BooksTyped
  <2>2. \A e \in Debts : e # d => debt'[e] = debt[e]
    BY <1>1, <1>2
  <2>3. Accepted(d)' /\ debt'[d].remaining = debt[d].remaining - payment[p].amount
    <3>1. debt'[d] = Ledger!PaidDown(debt[d], payment[p].amount)
      BY <1>1, <1>2 DEF Books!Inv, Books!TypeOK
    <3>2. debt[d] \in Books!DebtRow
      BY <1>2 DEF Books!Inv, Books!TypeOK
    <3>3. debt'[d].status \in {"settled", "partially_settled"}
      BY <3>1, <3>2 DEF Ledger!PaidDown, Books!DebtRow
    <3> QED
      BY <3>1, <3>2, <3>3 DEF Ledger!PaidDown, Books!DebtRow, Accepted
  <2>4. debt'[d].remaining < debt[d].remaining
    BY <1>2, <2>1, <2>3
  <2>5. \A a, e \in Debts : <<a, e>> \in older /\ a # d /\ e # d => <<a, e>> \in older'
    BY <1>6, TransactionsAssumption
  <2> QED
    BY <1>2, <2>1, <2>2, <2>3, <2>4, <2>5 DEF DebtsAge, Accepted
<1> QED
  BY <1>3, <1>7, <1>8 DEF NoBulkBegins

\* A debt is decided only while it is not accepted; the others keep their order.
LEMMA DecideAges ==
  ASSUME IInv, Books!Inv, OrderInv, NEW d \in Debts, Decide(d)
  PROVE  DebtsAge /\ TimesOK' /\ UNCHANGED tx
<1>1. PICK before \in SUBSET (Dated \ {d}) :
        older' = Forget(d) \cup (before \X {d}) \cup ({d} \X (Dated \ (before \cup {d})))
  BY DEF Decide
<1>2. UNCHANGED tx
  BY DEF Decide
<1>3. Dated' = Dated /\ d \in Dated
  BY <1>2 DEF Dated
<1>4. TimesOK'
  BY <1>1, <1>3 DEF TimesOK, OrderInv, Forget
<1>5. PICK user \in Users :
        \/ Ledger!AcceptDebt(d, user)
        \/ Ledger!RejectDebt(d, user)
        \/ \E amount \in Ledger!Amounts : Ledger!ReviewRejectedDebt(d, user, amount)
  BY DEF Decide
<1>6. ~Accepted(d) /\ \A e \in Debts : e # d => debt'[e] = debt[e]
  <2>1. CASE Ledger!AcceptDebt(d, user)
    BY <2>1 DEF Ledger!AcceptDebt, Accepted
  <2>2. CASE Ledger!RejectDebt(d, user)
    BY <2>2 DEF Ledger!RejectDebt, Accepted
  <2>3. ASSUME NEW amount \in Ledger!Amounts, Ledger!ReviewRejectedDebt(d, user, amount)
        PROVE  ~Accepted(d) /\ \A e \in Debts : e # d => debt'[e] = debt[e]
    BY <2>3 DEF Ledger!ReviewRejectedDebt, Accepted
  <2> QED
    BY <1>5, <2>1, <2>2, <2>3
<1>7. \A e \in Debts : debt[e].remaining \in Nat
  BY BooksTyped
<1>8. \A a, e \in Debts : <<a, e>> \in older /\ a # d /\ e # d => <<a, e>> \in older'
  BY <1>1 DEF Forget
<1>9. DebtsAge
  BY <1>6, <1>7, <1>8 DEF DebtsAge, Accepted
<1> QED
  BY <1>2, <1>4, <1>9

\* A bulk mark begins: it locks in the order of the times, and so in the same
\* order as the others that saw what it sees.
LEMMA BulkMarkBeginsInOrder ==
  ASSUME IInv, Books!Inv, OrderInv, NEW t \in Txs, NEW user, NEW receiver, NEW amount,
         BulkMarkBegin(t, user, receiver, amount), Books!Inv', IInv'
  PROVE  OrderInv'
<1> DEFINE seen == {d \in Debts : /\ Ledger!BulkPayable(d, user, receiver)
                                  /\ Ledger!PaymentsOn(d, "pending_confirmation") = {}}
           req == [kind |-> "bulk", user |-> user, receiver |-> receiver, amount |-> amount,
                   seen |-> seen, owed |-> [d \in seen |-> debt[d].remaining]]
<1>1. PICK order \in LockingOrder(seen) : tx' = [tx EXCEPT ![t] = Started("bulk", req, order)]
  BY DEF BulkMarkBegin
<1>2. ~Open(t) /\ UNCHANGED <<debt, payment, holder, older>>
  BY DEF BulkMarkBegin
<1>3. tx'[t] = Started("bulk", req, order) /\ \A u \in Txs : u # t => tx'[u] = tx[u]
  BY <1>1 DEF IInv, TablesOK
<1>4. /\ tx'[t].op = "bulk" /\ tx'[t].plan = order
      /\ tx'[t].request.seen = seen
      /\ tx'[t].request.owed = [d \in seen |-> debt[d].remaining]
  BY <1>3 DEF Started
<1>5. DebtsAge /\ TimesOK'
  <2>1. \A u \in Txs : Reviews(u)' <=> Reviews(u)
    BY <1>2, <1>3, <1>4 DEF Open, Reviews
  <2> QED
    BY <1>2, <2>1, NothingAges
<1>6. \A u \in Txs : u # t => SeenOK(u)'
  BY <1>3, <1>5, MarksKeep
<1>7. \A d \in seen : debt[d].remaining \in Nat /\ Accepted(d)
  BY BooksTyped DEF Ledger!BulkPayable, Ledger!PayableStatuses, Accepted
<1>8. DOMAIN order = 1..Len(order) /\ \A i \in 1..Len(order) : order[i] \in seen
  <2>1. Shaped(t)' /\ Planned(t)'
    BY DEF IInv, TxOK
  <2>2. order \in Seq(Rows)
    BY <1>4, <2>1 DEF Shaped, TxRecord
  <2>3. seen = {order[i] : i \in 1..Len(order)}
    BY <1>4, <2>1 DEF Planned
  <2> QED
    BY <2>2, <2>3
<1>9. \A i, j \in 1..Len(order) : i < j => <<order[i], order[j]>> \in older
  BY <1>8 DEF LockingOrder
<1> HIDE DEF seen
<1>10. \A d, e : LocksBefore(t, d, e)' =>
         /\ <<d, e>> \in older /\ d \in seen /\ e \in seen
         /\ tx'[t].request.owed[d] = debt[d].remaining
         /\ tx'[t].request.owed[e] = debt[e].remaining
  BY <1>4, <1>8, <1>9 DEF LocksBefore
<1>11. SeenOK(t)'
  <2>1. \A d \in seen : tx'[t].request.owed[d] = debt[d].remaining
    BY <1>4
  <2> QED
    BY <1>2, <1>4, <1>7, <1>10, <2>1 DEF SeenOK, Accepted
<1>12. ASSUME NEW u \in Txs, u # t, tx[u].op = "bulk", NEW d, NEW e,
              LocksBefore(u, d, e), LocksBefore(t, e, d)',
              tx[u].request.owed[d] = tx'[t].request.owed[d],
              tx[u].request.owed[e] = tx'[t].request.owed[e]
       PROVE  FALSE
  <2>1. /\ <<e, d>> \in older
        /\ tx'[t].request.owed[d] = debt[d].remaining
        /\ tx'[t].request.owed[e] = debt[e].remaining
    BY <1>10, <1>12
  <2>2. <<d, e>> \in older
    BY <1>12, <2>1 DEF OrderInv, SeenOK, Current
  <2> QED
    BY <2>1, <2>2 DEF OrderInv, TimesOK
<1>13. ASSUME NEW d, NEW e, LocksBefore(t, d, e)', LocksBefore(t, e, d)' PROVE FALSE
  <2>1. <<d, e>> \in older /\ <<e, d>> \in older
    BY <1>10, <1>13
  <2> QED
    BY <2>1 DEF OrderInv, TimesOK
<1>14. \A u \in Txs : u # t =>
         tx'[u] = tx[u] /\ \A d, e : LocksBefore(u, d, e)' = LocksBefore(u, d, e)
  BY <1>3 DEF LocksBefore
<1>15. ASSUME NEW u \in Txs, NEW v \in Txs PROVE Agree(u, v)'
  <2>1. CASE u # t /\ v # t
    BY <1>14, <2>1 DEF Agree, OrderInv
  <2>2. CASE u # t /\ v = t
    BY <1>12, <1>14, <2>2 DEF Agree
  <2>3. CASE u = t /\ v # t
    BY <1>12, <1>14, <2>3 DEF Agree
  <2>4. CASE u = t /\ v = t
    BY <1>13, <2>4 DEF Agree
  <2> QED
    BY <2>1, <2>2, <2>3, <2>4
<1> QED
  BY <1>5, <1>6, <1>11, <1>15 DEF OrderInv

\* A row is locked: who runs what and what it has seen stay.
LEMMA LockKeepsOrder ==
  ASSUME IInv, Books!Inv, OrderInv, NEW t \in Txs, Lock(t)
  PROVE  OrderInv'
<1>1. tx' = [tx EXCEPT ![t].locked = @ + 1,
                       ![t].saw = Locked(@, Wanted(t)),
                       ![t].rows = IF Returned(t, Wanted(t)) THEN Append(@, Wanted(t)) ELSE @]
      /\ UNCHANGED <<debt, older>>
  BY DEF Lock
<1>2. \A u \in Txs : /\ tx'[u].op = tx[u].op /\ tx'[u].request = tx[u].request
                     /\ tx'[u].plan = tx[u].plan
  BY <1>1 DEF IInv, TablesOK, TxOK, Shaped, TxRecord
<1>3. DebtsAge /\ TimesOK'
  BY <1>1, <1>2, NothingAges DEF Reviews
<1>4. \A u \in Txs : \A d, e : LocksBefore(u, d, e)' = LocksBefore(u, d, e)
  BY <1>2 DEF LocksBefore
<1>5. ASSUME NEW u \in Txs PROVE SeenOK(u)'
  <2>1. SeenOK(u) /\ \A d : Accepted(d)' = Accepted(d) /\ Current(u, d)' = Current(u, d)
    BY <1>1, <1>2 DEF OrderInv, Accepted, Current
  <2> QED
    BY <1>1, <1>2, <1>4, <2>1 DEF SeenOK
<1>6. \A u, v \in Txs : Agree(u, v)'
  BY <1>2, <1>4 DEF OrderInv, Agree
<1> QED
  BY <1>3, <1>5, <1>6 DEF OrderInv

\* Every step keeps the order.
LEMMA StepKeepsOrder ==
  ASSUME IInv, Books!Inv, OrderInv, [Next]_vars, IInv', Books!Inv'
  PROVE  OrderInv'
<1>1. ASSUME NEW t \in Txs, Begin(t) PROVE OrderInv'
  <2>1. ASSUME NEW user \in Users, NEW d \in Debts, NEW amount \in Ledger!Amounts,
               MarkBegin(t, user, d, amount)
        PROVE  OrderInv'
    <3>1. tx'[t].op = "mark" /\ ~Open(t) /\ \A u \in Txs : u # t => tx'[u] = tx[u]
      BY <2>1 DEF MarkBegin, Started, IInv, TablesOK
    <3>2. \A u \in Txs : Reviews(u)' <=> Reviews(u)
      BY <3>1 DEF Open, Reviews
    <3>3. DebtsAge /\ TimesOK'
      BY <2>1, <3>2, NothingAges DEF MarkBegin
    <3>4. NoBulkBegins
      BY <3>1 DEF NoBulkBegins
    <3> QED
      BY <3>3, <3>4, OrderKept
  <2>2. ASSUME NEW user \in Users, NEW receiver \in Users, NEW amount \in Ledger!Amounts,
               BulkMarkBegin(t, user, receiver, amount)
        PROVE  OrderInv'
    BY <2>2, BulkMarkBeginsInOrder
  <2>3. ASSUME NEW op \in {"confirm", "reject"}, NEW user \in Users, NEW p \in DOMAIN payment,
               ReviewBegin(t, op, user, p)
        PROVE  OrderInv'
    BY <2>3, ReviewBeginsLater, OrderKept
  <2> QED
    BY <1>1, <2>1, <2>2, <2>3 DEF Begin
<1>2. ASSUME NEW t \in Txs, Lock(t) PROVE OrderInv'
  BY <1>2, LockKeepsOrder
<1>3. ASSUME NEW t \in Txs, RollBack(t) PROVE OrderInv'
  BY <1>3, EndsForgotten, OrderKept DEF RollBack
<1>4. ASSUME NEW t \in Txs, MarkCommit(t) \/ BulkMarkCommit(t) PROVE OrderInv'
  <2>1. tx[t].op \in {"mark", "bulk"} /\ End(t) /\ UNCHANGED <<debt, older>>
    BY <1>4 DEF MarkCommit, BulkMarkCommit
  <2>2. tx'[t].op = "none" /\ \A u \in Txs : u # t => tx'[u] = tx[u]
    BY <2>1 DEF End, Closed, Started, IInv, TablesOK
  <2>3. \A u \in Txs : Reviews(u)' <=> Reviews(u)
    BY <2>1, <2>2 DEF Reviews
  <2>4. DebtsAge /\ TimesOK'
    BY <2>1, <2>3, NothingAges
  <2>5. NoBulkBegins
    BY <2>2 DEF NoBulkBegins
  <2> QED
    BY <2>4, <2>5, OrderKept
<1>5. ASSUME NEW t \in Txs, ConfirmCommit(t) PROVE OrderInv'
  BY <1>5, ConfirmAges, OrderKept
<1>6. ASSUME NEW t \in Txs, RejectCommit(t) PROVE OrderInv'
  BY <1>6, EndsForgotten, OrderKept DEF RejectCommit
<1>7. ASSUME NEW d \in Debts, Decide(d) PROVE OrderInv'
  BY <1>7, DecideAges, OrderKept DEF NoBulkBegins
<1>8. CASE UNCHANGED vars
  <2>1. UNCHANGED <<debt, older, tx>>
    BY <1>8 DEF vars
  <2>2. DebtsAge /\ TimesOK'
    BY <2>1, NothingAges DEF Reviews
  <2> QED
    BY <2>1, <2>2, OrderKept DEF NoBulkBegins
<1>9. CASE Next
  BY <1>1, <1>2, <1>3, <1>4, <1>5, <1>6, <1>7, <1>9
     DEF Next, Finish, Refuse, Cancel, BreakDeadlock
<1> QED
  BY <1>8, <1>9

\* At the start no transaction is open and the debts stand in some order.
LEMMA OrderAtStart ==
  ASSUME Init
  PROVE  OrderInv
<1>1. \A t \in Txs : tx[t].op = "none"
  BY DEF Init, Closed, Started
<1>2. Dated = Debts
  BY <1>1 DEF Dated
<1>3. PICK rank \in Bijection(Debts, 1..Cardinality(Debts)) :
        older = {pair \in Debts \X Debts : rank[pair[1]] < rank[pair[2]]}
  BY DEF Init
<1>4. Cardinality(Debts) \in Nat
  BY TransactionsAssumption, FS_CardinalityType
<1>5. \A d \in Debts : rank[d] \in Int
  BY <1>4 DEF Bijection, Injection
<1>6. TimesOK
  BY <1>2, <1>3, <1>5 DEF TimesOK
<1> QED
  BY <1>1, <1>6 DEF OrderInv, SeenOK, Agree

\* Two transactions that wait for each other are bulk marks (above), each has
\* locked a row the other wants, and so they lock the two rows in different
\* orders: but marks that saw the same of both lock them in the same order.
THEOREM DeadlocksTakeAConfirmation == Spec => []DeadlocksNeedAConfirmation
<1>1. IInv /\ OrderInv => DeadlocksNeedAConfirmation
  <2> SUFFICES ASSUME IInv, OrderInv, NEW t \in Txs, NEW u \in Txs, WaitsFor(t, u), WaitsFor(u, t)
               PROVE  \E d \in Range(tx[t].plan) \cap Range(tx[u].plan) :
                        tx[t].request.owed[d] # tx[u].request.owed[d]
    BY DEF DeadlocksNeedAConfirmation
  <2> DEFINE x == Wanted(u)
             y == Wanted(t)
  <2>1. tx[t].op = "bulk" /\ tx[u].op = "bulk"
    <3>1. Knot({t, u})
      BY DEF Knot
    <3> QED
      BY <3>1, CirclesAreOfBulkMarks DEF OnlyBulkMarksDeadlock
  <2>2. TxOK(t) /\ TxOK(u)
    BY DEF IInv
  <2>3. /\ tx[t].locked + 1 \in 1..Len(tx[t].plan) /\ y = tx[t].plan[tx[t].locked + 1]
        /\ tx[u].locked + 1 \in 1..Len(tx[u].plan) /\ x = tx[u].plan[tx[u].locked + 1]
    BY <2>2 DEF WaitsFor, Waits, AllLocked, Wanted, TxOK, Shaped, TxRecord
  <2>4. x \in Rows /\ y \in Rows /\ holder[x] = t /\ holder[y] = u
    BY <2>2, <2>3 DEF WaitsFor, TxOK, Shaped, TxRecord
  <2>5. PICK i \in 1..tx[t].locked : tx[t].plan[i] = x
    BY <2>2, <2>4 DEF TxOK, Locking
  <2>6. PICK j \in 1..tx[u].locked : tx[u].plan[j] = y
    BY <2>2, <2>4 DEF TxOK, Locking
  <2>7. tx[t].locked \in Nat /\ tx[u].locked \in Nat
    BY <2>2 DEF TxOK, Shaped, TxRecord
  <2>8. LocksBefore(t, x, y) /\ LocksBefore(u, y, x)
    <3>1. i \in 1..Len(tx[t].plan) /\ i < tx[t].locked + 1
      BY <2>2, <2>7 DEF TxOK, Shaped, TxRecord
    <3>2. j \in 1..Len(tx[u].plan) /\ j < tx[u].locked + 1
      BY <2>2, <2>7 DEF TxOK, Shaped, TxRecord
    <3> QED
      BY <2>3, <2>5, <2>6, <3>1, <3>2 DEF LocksBefore
  <2>9. \/ tx[t].request.owed[x] # tx[u].request.owed[x]
        \/ tx[t].request.owed[y] # tx[u].request.owed[y]
    BY <2>1, <2>8 DEF OrderInv, Agree
  <2>10. {x, y} \subseteq Range(tx[t].plan) \cap Range(tx[u].plan)
    <3>1. tx[t].plan \in Seq(Rows) /\ tx[u].plan \in Seq(Rows)
      BY <2>2 DEF TxOK, Shaped, TxRecord
    <3>2. \A v \in {t, u} : \A d, e : LocksBefore(v, d, e) => {d, e} \subseteq Range(tx[v].plan)
      BY <3>1 DEF LocksBefore, Range
    <3> QED
      BY <2>8, <3>2
  <2> QED
    BY <2>9, <2>10
<1>2. Init => IInv /\ Books!Inv /\ OrderInv
  BY InitOK, BooksHold, OrderAtStart
<1>3. IInv /\ Books!Inv /\ OrderInv /\ [Next]_vars => (IInv /\ Books!Inv /\ OrderInv)'
  BY StepOK, BooksHold, StepKeepsOrder
<1> QED
  BY <1>1, <1>2, <1>3, PTL DEF Spec
===============================================================================
