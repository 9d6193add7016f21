---------------------------- MODULE DebtCallsProofs ----------------------------
(***************************************************************************)
(* Every change of the ledger is announced once, for any debts, users,     *)
(* payments, amounts and number of handlers, through crashes and failing   *)
(* statements.  The ledger below obeys the invariants of LedgerProofs      *)
(* although a crash ends all its marking requests in one step.             *)
(***************************************************************************)
EXTENDS DebtCalls, LedgerProofs

-------------------------------------------------------------------------------
(* The inductive invariant. *)

\* The handlers that still have to write n.
Writers(n) == {r \in Requests : n \in Pending(r)}

DebtNotices == {"debt_accepted", "debt_rejected", "debt_resent"}
PaymentNotices == {"payment_marked", "payment_confirmed", "payment_rejected"}

\* A notice is of a row that is there and for its addressee.
Addressed(n) ==
    /\ \/ n.type \in DebtNotices /\ n.of \in Debts
       \/ n.type \in PaymentNotices /\ n.of \in DOMAIN payment
    /\ n.to = Addressee(n)

\* The notices of debt d tell what its row says.
DebtAnnounced(d) ==
    /\ Due(Notice("debt_accepted", d, Creditor[d]))
         = Once(debt[d].status \notin {"pending", "rejected"})
    /\ Due(Notice("debt_rejected", d, Creditor[d])) - Due(Notice("debt_resent", d, Debtor[d]))
         = Once(debt[d].status = "rejected")

\* The notices of payment p, which is on debt d, tell what its row says.
PaymentAnnounced(p, d) ==
    /\ Due(Notice("payment_marked", p, Creditor[d])) = 1
    /\ Due(Notice("payment_confirmed", p, Debtor[d])) = Once(payment[p].status = "confirmed")
    /\ Due(Notice("payment_rejected", p, Debtor[d])) = Once(payment[p].status = "rejected")

BagsOK == IsABag(told) /\ IsABag(lost)

\* A handler has no transaction open while it does something else.
OneAtATime ==
    /\ call \in [Requests -> {call[r] : r \in Requests}]
    /\ \A r \in Requests : call[r] = Free \/ request[r] = Idle

Announced ==
    /\ \A n : Due(n) # 0 => Addressed(n)
    /\ \A d \in Debts : DebtAnnounced(d)
    /\ \A p \in DOMAIN payment, d \in Debts : payment[p].debt = d => PaymentAnnounced(p, d)

CallsInv ==
    /\ Inv
    /\ BagsOK
    /\ OneAtATime
    /\ Announced

-------------------------------------------------------------------------------
(* Counting notices. *)

LEMMA CopiesAreNat ==
  ASSUME NEW bag, IsABag(bag), NEW n
  PROVE  Copies(n, bag) \in Nat /\ (Copies(n, bag) # 0 <=> n \in DOMAIN bag)
BY DEF IsABag, Copies, BagIn, BagToSet

LEMMA WritersAreNat ==
  ASSUME NEW n
  PROVE  /\ IsFiniteSet(Writers(n)) /\ Cardinality(Writers(n)) \in Nat
         /\ Cardinality(Writers(n)) # 0 <=> Writers(n) # {}
<1>1. IsFiniteSet(Writers(n))
  BY LedgerAssumption, FS_Subset DEF Writers
<1> QED
  BY <1>1, FS_CardinalityType, FS_EmptySet

LEMMA DueIs ==
  ASSUME NEW n
  PROVE  /\ Due(n) = Copies(n, told) + Copies(n, lost) + Cardinality(Writers(n))
         /\ Due(n)' = Copies(n, told') + Copies(n, lost') + Cardinality(Writers(n)')
BY DEF Due, Writers

\* Adding two bags.
LEMMA CopiesAdd ==
  ASSUME NEW A, NEW B, IsABag(A), IsABag(B)
  PROVE  /\ IsABag(A (+) B)
         /\ \A n : Copies(n, A (+) B) = Copies(n, A) + Copies(n, B)
BY DEF IsABag, (+), Copies, BagIn, BagToSet

\* One notice more.
LEMMA CopiesAddOne ==
  ASSUME NEW bag, IsABag(bag), NEW n
  PROVE  /\ IsABag(bag (+) SetToBag({n}))
         /\ Copies(n, bag (+) SetToBag({n})) = Copies(n, bag) + 1
         /\ \A m : m # n => Copies(m, bag (+) SetToBag({n})) = Copies(m, bag)
<1> DEFINE one == SetToBag({n})
<1>1. /\ IsABag(one) /\ Copies(n, one) = 1
      /\ \A m : m # n => Copies(m, one) = 0
  BY DEF SetToBag, IsABag, Copies, BagIn, BagToSet
<1> HIDE DEF one
<1>2. IsABag(bag (+) one) /\ \A m : Copies(m, bag (+) one) = Copies(m, bag) + Copies(m, one)
  BY <1>1, CopiesAdd
<1>3. \A m : Copies(m, bag) \in Nat
  BY CopiesAreNat
<1>4. Copies(n, bag (+) one) = Copies(n, bag) + 1
  BY <1>1, <1>2
<1>5. \A m : m # n => Copies(m, bag (+) one) = Copies(m, bag)
  BY <1>1, <1>2, <1>3
<1> QED
  BY <1>2, <1>4, <1>5 DEF one

-------------------------------------------------------------------------------
(* How a step changes what is due. *)

\* What is due grows by the notices of new, each by one.
Adds(new) == \A n : Due(n)' = Due(n) + Once(n \in new)

\* A handler that was not announcing goes on to announce new.
LEMMA HandlerAdds ==
  ASSUME OneAtATime, NEW r \in Requests, Pending(r) = {}, NEW new, NEW c,
         call' = [call EXCEPT ![r] = c],
         new = IF c.at = "announcing" THEN c.todo ELSE {},
         UNCHANGED <<told, lost>>, BagsOK
  PROVE  Adds(new)
<1> SUFFICES ASSUME NEW n PROVE Due(n)' = Due(n) + Once(n \in new)
  BY DEF Adds
<1>1. call'[r] = c /\ \A s \in Requests \ {r} : call'[s] = call[s]
  BY DEF OneAtATime
<1>2. Pending(r)' = new /\ \A s \in Requests \ {r} : Pending(s)' = Pending(s)
  BY <1>1 DEF Pending
<1>3. r \notin Writers(n)
  BY DEF Writers
<1>4. Writers(n)' = IF n \in new THEN Writers(n) \cup {r} ELSE Writers(n)
  BY <1>2, <1>3 DEF Writers
<1>5. Cardinality(Writers(n) \cup {r}) = Cardinality(Writers(n)) + 1
  BY <1>3, WritersAreNat, FS_AddElement
<1>6. Cardinality(Writers(n)') = Cardinality(Writers(n)) + Once(n \in new)
  BY <1>4, <1>5, WritersAreNat DEF Once
<1>7. Copies(n, told) \in Nat /\ Copies(n, lost) \in Nat /\ Once(n \in new) \in Nat
  BY CopiesAreNat DEF BagsOK, Once
<1> QED
  BY <1>6, <1>7, WritersAreNat, DueIs

\* A notice that is written or lost is due as before.
LEMMA SettledStaysDue ==
  ASSUME OneAtATime, BagsOK, NEW r \in Requests, NEW n \in Pending(r), Settle(r, n),
         \/ told' = told (+) SetToBag({n}) /\ lost' = lost
         \/ lost' = lost (+) SetToBag({n}) /\ told' = told
  PROVE  Adds({}) /\ BagsOK'
<1> DEFINE c == IF Pending(r) = {n} THEN Free ELSE Announcing(Pending(r) \ {n})
<1>1. call'[r] = c /\ \A s \in Requests \ {r} : call'[s] = call[s]
  BY DEF OneAtATime, Settle
<1>2. Pending(r)' = Pending(r) \ {n} /\ \A s \in Requests \ {r} : Pending(s)' = Pending(s)
  BY <1>1 DEF Pending, Free, Announcing
<1>3. BagsOK'
  BY CopiesAddOne DEF BagsOK
<1>4. ASSUME NEW m PROVE Due(m)' = Due(m)
  <2>1. /\ Copies(m, told) \in Nat /\ Copies(m, lost) \in Nat
        /\ IsFiniteSet(Writers(m)) /\ Cardinality(Writers(m)) \in Nat
    BY CopiesAreNat, WritersAreNat DEF BagsOK
  <2>2. CASE m = n
    <3>1. r \in Writers(n) /\ Writers(n)' = Writers(n) \ {r}
      BY <1>2 DEF Writers
    <3>2. Cardinality(Writers(n)') = Cardinality(Writers(n)) - 1
      BY <2>1, <2>2, <3>1, FS_RemoveElement
    <3>3. Copies(n, told') + Copies(n, lost') = Copies(n, told) + Copies(n, lost) + 1
      <4>1. CASE told' = told (+) SetToBag({n}) /\ lost' = lost
        BY <2>1, <2>2, <4>1, CopiesAddOne DEF BagsOK
      <4>2. CASE lost' = lost (+) SetToBag({n}) /\ told' = told
        BY <2>1, <2>2, <4>2, CopiesAddOne DEF BagsOK
      <4> QED
        BY <4>1, <4>2
    <3>4. Copies(n, told') \in Nat /\ Copies(n, lost') \in Nat
      BY <1>3, CopiesAreNat DEF BagsOK
    <3> QED
      BY <2>1, <2>2, <3>2, <3>3, <3>4, DueIs
  <2>3. CASE m # n
    <3>1. Writers(m)' = Writers(m)
      BY <1>2, <2>3 DEF Writers
    <3>2. Copies(m, told') = Copies(m, told) /\ Copies(m, lost') = Copies(m, lost)
      <4>1. IsABag(told) /\ IsABag(lost)
        BY DEF BagsOK
      <4>2. /\ Copies(m, told (+) SetToBag({n})) = Copies(m, told)
            /\ Copies(m, lost (+) SetToBag({n})) = Copies(m, lost)
        BY <2>3, <4>1, CopiesAddOne
      <4> QED
        BY <4>2
    <3> QED
      BY <3>1, <3>2, DueIs
  <2> QED
    BY <2>2, <2>3
<1>5. ASSUME NEW m PROVE Due(m) + Once(m \in {}) = Due(m)
  <2>1. Due(m) \in Nat
    BY CopiesAreNat, WritersAreNat, DueIs DEF BagsOK
  <2> QED
    BY <2>1 DEF Once
<1> QED
  BY <1>3, <1>4, <1>5 DEF Adds

\* What handlers had to write when the process died is lost, and due as before.
LEMMA CrashStaysDue ==
  ASSUME BagsOK, Crash
  PROVE  Adds({}) /\ BagsOK'
<1>1. /\ IsABag(Unwritten)
      /\ \A n : Copies(n, Unwritten) = Cardinality(Writers(n))
  <2>1. Unwritten = [n \in UNION {Pending(r) : r \in Requests} |-> Cardinality(Writers(n))]
    BY DEF Unwritten, Writers
  <2>2. \A n : n \in UNION {Pending(r) : r \in Requests} <=> Writers(n) # {}
    BY DEF Writers
  <2>3. \A n : /\ Cardinality(Writers(n)) \in Nat
               /\ Cardinality(Writers(n)) # 0 <=> Writers(n) # {}
    BY WritersAreNat
  <2> QED
    BY <2>1, <2>2, <2>3 DEF IsABag, Copies, BagIn, BagToSet
<1>2. lost' = lost (+) Unwritten /\ told' = told /\ call' = [r \in Requests |-> Free]
  BY DEF Crash
<1>3. IsABag(lost') /\ \A n : Copies(n, lost') = Copies(n, lost) + Cardinality(Writers(n))
  BY <1>1, <1>2, CopiesAdd DEF BagsOK
<1>4. ASSUME NEW n PROVE Due(n)' = Due(n) + Once(n \in {})
  <2>1. /\ Copies(n, told) \in Nat /\ Copies(n, lost) \in Nat /\ Cardinality(Writers(n)) \in Nat
    BY CopiesAreNat, WritersAreNat DEF BagsOK
  <2>2. Writers(n)' = {}
    BY <1>2 DEF Writers, Pending, Free
  <2>3. Cardinality(Writers(n)') = 0
    BY <2>2, FS_EmptySet
  <2> QED
    BY <1>2, <1>3, <2>1, <2>3, DueIs DEF Once
<1> QED
  BY <1>2, <1>3, <1>4 DEF Adds, BagsOK

\* Handlers that neither begin nor end an announcement leave what is due.
LEMMA NothingNew ==
  ASSUME BagsOK, UNCHANGED <<told, lost>>, \A r \in Requests : Pending(r)' = Pending(r)
  PROVE  Adds({})
<1> SUFFICES ASSUME NEW n PROVE Due(n)' = Due(n) + Once(n \in {})
  BY DEF Adds
<1>1. Writers(n)' = Writers(n)
  BY DEF Writers
<1>2. Due(n)' = Due(n)
  BY <1>1, DueIs
<1>3. Due(n) \in Nat
  BY CopiesAreNat, WritersAreNat, DueIs DEF BagsOK
<1> QED
  BY <1>2, <1>3 DEF Once

\* What is due in both states is a number.
LEMMA DueIsNat ==
  ASSUME BagsOK, NEW n
  PROVE  Due(n) \in Nat
BY CopiesAreNat, WritersAreNat, DueIs DEF BagsOK

-------------------------------------------------------------------------------
(* A step of the ledger and the notices that tell it. *)

\* new tells how the row of debt d changes.
TellsDebt(new, d) ==
    /\ Once(debt'[d].status \notin {"pending", "rejected"})
         = Once(debt[d].status \notin {"pending", "rejected"})
             + Once(Notice("debt_accepted", d, Creditor[d]) \in new)
    /\ Once(debt'[d].status = "rejected")
         = Once(debt[d].status = "rejected")
             + Once(Notice("debt_rejected", d, Creditor[d]) \in new)
             - Once(Notice("debt_resent", d, Debtor[d]) \in new)

\* new tells how the row of payment p, on debt d, changes.
TellsPayment(new, p, d) ==
    /\ Notice("payment_marked", p, Creditor[d]) \notin new
    /\ Once(payment'[p].status = "confirmed")
         = Once(payment[p].status = "confirmed")
             + Once(Notice("payment_confirmed", p, Debtor[d]) \in new)
    /\ Once(payment'[p].status = "rejected")
         = Once(payment[p].status = "rejected")
             + Once(Notice("payment_rejected", p, Debtor[d]) \in new)

\* new tells that payment p, on debt d, has been marked.
TellsMarked(new, p, d) ==
    /\ Notice("payment_marked", p, Creditor[d]) \in new
    /\ Notice("payment_confirmed", p, Debtor[d]) \notin new
    /\ Notice("payment_rejected", p, Debtor[d]) \notin new
    /\ payment'[p].status = "pending_confirmation"

PaymentsStay ==
    \A p \in DOMAIN payment : p \in DOMAIN payment' /\ payment'[p].debt = payment[p].debt

\* When the notices added tell what has changed, all that is due tells all there is.
LEMMA ToldIsAnnounced ==
  ASSUME BagsOK, BagsOK', Announced, NEW new, Adds(new), PaymentsStay,
         \A n \in new : Addressed(n)',
         \A d \in Debts : TellsDebt(new, d),
         \A p \in DOMAIN payment, d \in Debts : payment[p].debt = d => TellsPayment(new, p, d),
         \A p \in DOMAIN payment' \ DOMAIN payment, d \in Debts :
           payment'[p].debt = d => TellsMarked(new, p, d)
  PROVE  Announced'
<1>1. \A n : Due(n) \in Nat
  BY DueIsNat
<1>2. \A n : Due(n)' = Due(n) + Once(n \in new)
  BY DEF Adds
<1>3. ASSUME NEW n, Due(n)' # 0 PROVE Addressed(n)'
  <2>1. Due(n) # 0 \/ n \in new
    BY <1>1, <1>2, <1>3 DEF Once
  <2>2. Addressed(n) => Addressed(n)'
    BY DEF Addressed, Addressee, PaymentsStay, DebtNotices, PaymentNotices
  <2> QED
    BY <2>1, <2>2 DEF Announced
<1>4. ASSUME NEW d \in Debts PROVE DebtAnnounced(d)'
  <2> DEFINE a == Notice("debt_accepted", d, Creditor[d])
             b == Notice("debt_rejected", d, Creditor[d])
             c == Notice("debt_resent", d, Debtor[d])
  <2>1. /\ Due(a) = Once(debt[d].status \notin {"pending", "rejected"})
        /\ Due(b) - Due(c) = Once(debt[d].status = "rejected")
    BY DEF Announced, DebtAnnounced
  <2>2. /\ Once(debt'[d].status \notin {"pending", "rejected"})
             = Once(debt[d].status \notin {"pending", "rejected"}) + Once(a \in new)
        /\ Once(debt'[d].status = "rejected")
             = Once(debt[d].status = "rejected") + Once(b \in new) - Once(c \in new)
    BY DEF TellsDebt
  <2> HIDE DEF a, b, c
  <2>3. /\ Due(a)' = Due(a) + Once(a \in new)
        /\ Due(b)' = Due(b) + Once(b \in new)
        /\ Due(c)' = Due(c) + Once(c \in new)
    BY <1>2
  <2>4. \A P \in BOOLEAN : Once(P) \in {0, 1}
    BY DEF Once
  <2>5. /\ Due(a)' = Once(debt'[d].status \notin {"pending", "rejected"})
        /\ Due(b)' - Due(c)' = Once(debt'[d].status = "rejected")
    BY <1>1, <2>1, <2>2, <2>3 DEF Once
  <2> QED
    BY <2>5 DEF DebtAnnounced, a, b, c
<1>5. ASSUME NEW p \in DOMAIN payment', NEW d \in Debts, payment'[p].debt = d
      PROVE  PaymentAnnounced(p, d)'
  <2> DEFINE a == Notice("payment_marked", p, Creditor[d])
             b == Notice("payment_confirmed", p, Debtor[d])
             c == Notice("payment_rejected", p, Debtor[d])
  <2>1. \A n \in {a, b, c} : Due(n)' = Due(n) + Once(n \in new) /\ Due(n) \in Nat
    BY <1>1, <1>2
  <2>2. \A P \in BOOLEAN : Once(P) \in {0, 1}
    BY DEF Once
  <2>3. CASE p \in DOMAIN payment
    <3>1. payment[p].debt = d
      BY <1>5, <2>3 DEF PaymentsStay
    <3>2. /\ Due(a) = 1
          /\ Due(b) = Once(payment[p].status = "confirmed")
          /\ Due(c) = Once(payment[p].status = "rejected")
      BY <2>3, <3>1 DEF Announced, PaymentAnnounced
    <3>3. TellsPayment(new, p, d)
      BY <2>3, <3>1
    <3>4. /\ Due(a)' = 1
          /\ Due(b)' = Once(payment'[p].status = "confirmed")
          /\ Due(c)' = Once(payment'[p].status = "rejected")
      BY <2>1, <2>2, <3>2, <3>3 DEF TellsPayment, Once
    <3> QED
      BY <3>4 DEF PaymentAnnounced
  <2>4. CASE p \notin DOMAIN payment
    <3>1. TellsMarked(new, p, d)
      BY <1>5, <2>4
    <3>2. \A n \in {a, b, c} : n.of = p /\ n.type \in PaymentNotices
      BY DEF Notice, PaymentNotices
    <3>3. \A n \in {a, b, c} : ~Addressed(n)
      BY <2>4, <3>2 DEF Addressed, DebtNotices, PaymentNotices
    <3>4. \A n \in {a, b, c} : Due(n) = 0
      BY <3>3 DEF Announced
    <3>5. Due(a)' = 1 /\ Due(b)' = 0 /\ Due(c)' = 0
      BY <2>1, <3>1, <3>4 DEF TellsMarked, Once
    <3>6. payment'[p].status = "pending_confirmation"
      BY <3>1 DEF TellsMarked
    <3> QED
      BY <3>5, <3>6 DEF PaymentAnnounced, Once
  <2> QED
    BY <2>3, <2>4
<1> QED
  BY <1>3, <1>4, <1>5 DEF Announced

\* A step that leaves the ledger and what is due tells nothing.
LEMMA QuietStep ==
  ASSUME BagsOK, BagsOK', Announced, Adds({}), UNCHANGED <<debt, payment>>
  PROVE  Announced'
<1>1. PaymentsStay
  BY DEF PaymentsStay
<1>2. \A P \in BOOLEAN : Once(P) \in {0, 1}
  BY DEF Once
<1>3. \A d \in Debts : TellsDebt({}, d)
  BY <1>2 DEF TellsDebt, Once
<1>4. \A p \in DOMAIN payment, d \in Debts : TellsPayment({}, p, d)
  BY <1>2 DEF TellsPayment, Once
<1> QED
  BY <1>1, <1>3, <1>4, ToldIsAnnounced

-------------------------------------------------------------------------------
(* Each step keeps the invariant. *)

LEMMA HandlerGoesOn ==
  ASSUME OneAtATime, NEW r \in Requests, NEW c,
         call' = [call EXCEPT ![r] = c],
         c = Free \/ request'[r] = Idle,
         \A s \in Requests \ {r} : request'[s] = request[s]
  PROVE  OneAtATime'
<1>1. call'[r] = c /\ \A s \in Requests \ {r} : call'[s] = call[s]
  BY DEF OneAtATime
<1>2. call' \in [Requests -> {call'[s] : s \in Requests}]
  BY DEF OneAtATime
<1>3. OneAtATime'
  BY <1>1, <1>2 DEF OneAtATime
<1> QED
  BY <1>3

\* A debtor or an owner decides, and has one notice to write.
LEMMA DecideKeeps ==
  ASSUME CallsInv, NEW r \in Requests, NEW op \in {"accept", "reject", "resend"},
         NEW user \in Users, NEW d \in Debts, Decide(r, op, user, d)
  PROVE  CallsInv'
<1> DEFINE n == DecisionNotice(op, d)
           c == Announcing({n})
<1>1. PICK amount \in Amounts \cup {0} :
        \/ op = "accept" /\ AcceptDebt(d, user)
        \/ op = "reject" /\ RejectDebt(d, user)
        \/ op = "resend" /\ amount \in Amounts /\ ReviewRejectedDebt(d, user, amount)
  BY DEF Decide
<1>2. /\ IsFree(r) /\ call' = [call EXCEPT ![r] = c]
      /\ UNCHANGED <<told, lost, payment, request>>
  BY <1>1 DEF Decide, AcceptDebt, RejectDebt, ReviewRejectedDebt
<1>3. Inv'
  BY <1>1, DecideInv, ReviewInv DEF CallsInv
<1>4. c.at = "announcing" /\ c.todo = {n}
  BY DEF Announcing
<1> HIDE DEF c
<1>5. OneAtATime'
  <2>1. request'[r] = Idle
    BY <1>2 DEF IsFree
  <2> QED
    BY <1>2, <2>1, HandlerGoesOn DEF CallsInv
<1>6. Adds({n})
  <2>1. Pending(r) = {}
    BY <1>2 DEF IsFree, Free, Pending
  <2> QED
    BY <1>2, <1>4, <2>1, HandlerAdds DEF CallsInv
<1>7. /\ debt' = [debt EXCEPT ![d] = debt'[d]]
      /\ \A e \in Debts \ {d} : debt'[e] = debt[e]
      /\ op = "accept" => debt[d].status = "pending" /\ debt'[d].status = "accepted"
      /\ op = "reject" => debt[d].status = "pending" /\ debt'[d].status = "rejected"
      /\ op = "resend" => debt[d].status = "rejected" /\ debt'[d].status = "pending"
  <2>1. debt \in [Debts -> DebtRow]
    BY DEF CallsInv, Inv, TypeOK
  <2> QED
    BY <1>1, <2>1 DEF AcceptDebt, RejectDebt, ReviewRejectedDebt, DebtRow
<1>8. ASSUME NEW e \in Debts PROVE TellsDebt({n}, e)
  <2>1. /\ Notice("debt_accepted", e, Creditor[e]) \in {n} <=> op = "accept" /\ e = d
        /\ Notice("debt_rejected", e, Creditor[e]) \in {n} <=> op = "reject" /\ e = d
        /\ Notice("debt_resent", e, Debtor[e]) \in {n} <=> op = "resend" /\ e = d
    BY DEF DecisionNotice, Notice
  <2>2. CASE e = d
    BY <1>7, <2>1, <2>2 DEF TellsDebt, Once
  <2>3. CASE e # d
    BY <1>7, <2>1, <2>3 DEF TellsDebt, Once
  <2> QED
    BY <2>2, <2>3
<1>9. ASSUME NEW p \in DOMAIN payment, NEW e \in Debts PROVE TellsPayment({n}, p, e)
  <2>1. n.type \notin PaymentNotices
    BY DEF DecisionNotice, Notice, PaymentNotices
  <2>2. /\ Notice("payment_marked", p, Creditor[e]) \notin {n}
        /\ Notice("payment_confirmed", p, Debtor[e]) \notin {n}
        /\ Notice("payment_rejected", p, Debtor[e]) \notin {n}
    BY <2>1 DEF Notice, PaymentNotices
  <2> QED
    BY <1>2, <2>2 DEF TellsPayment, Once
<1>10. Addressed(n)'
  BY DEF DecisionNotice, Notice, Addressed, Addressee, DebtNotices
<1>11. Announced'
  <2>1. PaymentsStay
    BY <1>2 DEF PaymentsStay
  <2>2. BagsOK'
    BY <1>2 DEF CallsInv, BagsOK
  <2> QED
    BY <1>2, <1>6, <1>8, <1>9, <1>10, <2>1, <2>2, ToldIsAnnounced DEF CallsInv
<1> QED
  BY <1>2, <1>3, <1>5, <1>11 DEF CallsInv, BagsOK

\* A handler that changes nothing and announces nothing goes on.
LEMMA SilentKeeps ==
  ASSUME CallsInv, NEW r \in Requests, NEW c, call' = [call EXCEPT ![r] = c],
         Pending(r) = {}, c.at # "announcing", request[r] = Idle \/ c = Free,
         UNCHANGED <<vars, told, lost>>
  PROVE  CallsInv'
<1>1. UNCHANGED <<debt, payment, request, told, lost>>
  BY DEF vars
<1>2. Inv'
  BY <1>1, RequestInv DEF CallsInv, Inv, TypeOK
<1>3. OneAtATime'
  BY <1>1, HandlerGoesOn DEF CallsInv
<1>4. Adds({})
  BY <1>1, HandlerAdds DEF CallsInv
<1>5. BagsOK'
  BY <1>1 DEF CallsInv, BagsOK
<1> QED
  BY <1>1, <1>2, <1>3, <1>4, <1>5, QuietStep DEF CallsInv

\* The three steps of a refusal.
LEMMA RefusalKeeps ==
  ASSUME CallsInv, NEW r \in Requests,
         \/ \E op \in {"accept", "reject", "resend"}, user \in Users, d \in Debts :
              DecideNothing(r, op, user, d)
         \/ LookUp(r)
         \/ Answer(r)
  PROVE  CallsInv'
<1>1. ASSUME NEW op \in {"accept", "reject", "resend"}, NEW user \in Users, NEW d \in Debts,
             DecideNothing(r, op, user, d)
      PROVE  CallsInv'
  <2> DEFINE c == LookingUp(op, d, user)
  <2>1. /\ IsFree(r) /\ call' = [call EXCEPT ![r] = c] /\ UNCHANGED <<vars, told, lost>>
        /\ user # Decider(op, d) \/ debt[d].status # Decidable(op)
    BY <1>1 DEF DecideNothing
  <2>2. c.at # "announcing"
    BY DEF LookingUp
  <2>3. Pending(r) = {} /\ request[r] = Idle
    BY <2>1 DEF IsFree, Free, Pending
  <2> QED
    BY <2>1, <2>2, <2>3, SilentKeeps
<1>2. CASE LookUp(r)
  <2> DEFINE c == [at |-> "refused", because |-> Reason(call[r])]
  <2>1. /\ call[r].at = "looking_up" /\ call' = [call EXCEPT ![r] = c]
        /\ UNCHANGED <<vars, told, lost>>
    BY <1>2 DEF LookUp
  <2>2. c.at # "announcing"
    OBVIOUS
  <2>3. Pending(r) = {} /\ request[r] = Idle
    BY <2>1 DEF Pending, CallsInv, OneAtATime, Free
  <2> QED
    BY <2>1, <2>2, <2>3, SilentKeeps
<1>3. CASE Answer(r)
  <2>1. /\ call[r].at \in {"looking_up", "refused"} /\ call' = [call EXCEPT ![r] = Free]
        /\ UNCHANGED <<vars, told, lost>>
    BY <1>3 DEF Answer
  <2>2. Free.at # "announcing"
    BY DEF Free
  <2>3. Pending(r) = {}
    BY <2>1 DEF Pending
  <2> QED
    BY <2>1, <2>2, <2>3, SilentKeeps
<1> QED
  BY <1>1, <1>2, <1>3

\* A mark begins or is rolled back.
LEMMA MarkKeeps ==
  ASSUME CallsInv, NEW r \in Requests, Mark(r)
  PROVE  CallsInv'
<1>1. /\ call[r] = Free /\ UNCHANGED <<call, told, lost>>
      /\ MarkStep
  BY DEF Mark, MarkStep, callVars
<1>2. UNCHANGED <<debt, payment>> /\ \A s \in Requests \ {r} : request'[s] = request[s]
  BY DEF Mark, MarkBegin, BulkMarkBegin, RollBack, CallsInv, Inv, TypeOK
<1>3. Inv'
  BY <1>1, NextInv DEF CallsInv, Next
<1>4. OneAtATime'
  BY <1>1, <1>2 DEF CallsInv, OneAtATime
<1>5. Adds({})
  BY <1>1, NothingNew DEF CallsInv, Pending
<1>6. BagsOK'
  BY <1>1 DEF CallsInv, BagsOK
<1> QED
  BY <1>2, <1>3, <1>4, <1>5, <1>6, QuietStep DEF CallsInv

\* A marking transaction commits and has a notice to write for each payment.
LEMMA MarkDoneKeeps ==
  ASSUME CallsInv, NEW r \in Requests, MarkDone(r)
  PROVE  CallsInv'
<1> DEFINE ids == DOMAIN payment' \ DOMAIN payment
           new == MarkedNotices(ids)
           c == Announcing(new)
<1>1. /\ MarkCommit(r) \/ BulkMarkCommit(r)
      /\ call' = [call EXCEPT ![r] = c]
      /\ UNCHANGED <<told, lost>>
  BY DEF MarkDone
<1>2. /\ UNCHANGED debt
      /\ request' = [request EXCEPT ![r] = Idle]
      /\ request[r].kind \in {"mark", "bulk"}
  BY <1>1 DEF MarkCommit, BulkMarkCommit
<1>3. request'[r] = Idle /\ request[r] # Idle /\ \A s \in Requests \ {r} : request'[s] = request[s]
  BY <1>2 DEF CallsInv, Inv, TypeOK, Idle
<1>4. Inv'
  BY <1>1, NextInv DEF CallsInv, Next, MarkStep
<1>5. call[r] = Free /\ Pending(r) = {}
  BY <1>3 DEF CallsInv, OneAtATime, Pending, Free
<1>6. c.at = "announcing" /\ c.todo = new
  BY DEF Announcing
<1> HIDE DEF c, new
<1>7. OneAtATime'
  BY <1>1, <1>3, HandlerGoesOn DEF CallsInv
<1>8. Adds(new)
  BY <1>1, <1>5, <1>6, HandlerAdds DEF CallsInv
<1>9. PICK rows : Inserted(rows)
  BY <1>1, MarkInserts, BulkMarkInserts DEF CallsInv, Inv
<1>10. /\ DOMAIN payment' = DOMAIN payment \cup DOMAIN rows
       /\ \A p \in DOMAIN payment : p \notin DOMAIN rows /\ payment'[p] = payment[p]
       /\ \A p \in DOMAIN rows : payment'[p] = rows[p]
  BY <1>9 DEF Inserted, InsertPayments, FreshIds
<1>11. \A p \in ids : /\ payment'[p].status = "pending_confirmation"
                      /\ payment'[p].debt \in Debts
                      /\ payment'[p].receivedBy = Creditor[payment'[p].debt]
  BY <1>9, <1>10 DEF Inserted, PaymentRow
<1>12. ASSUME NEW n \in new
       PROVE  \E p \in ids : n = Notice("payment_marked", p, Creditor[payment'[p].debt])
  BY <1>11 DEF new, MarkedNotices
<1>13. ASSUME NEW n \in new PROVE Addressed(n)'
  <2>1. PICK p \in ids : n = Notice("payment_marked", p, Creditor[payment'[p].debt])
    BY <1>12
  <2> QED
    BY <2>1 DEF Notice, Addressed, Addressee, DebtNotices, PaymentNotices
<1>14. ASSUME NEW d \in Debts PROVE TellsDebt(new, d)
  <2>1. \A n \in new : n.type = "payment_marked"
    BY <1>12 DEF Notice
  <2>2. /\ Notice("debt_accepted", d, Creditor[d]) \notin new
        /\ Notice("debt_rejected", d, Creditor[d]) \notin new
        /\ Notice("debt_resent", d, Debtor[d]) \notin new
    BY <2>1 DEF Notice
  <2> QED
    BY <1>2, <2>2 DEF TellsDebt, Once
<1>15. ASSUME NEW p \in DOMAIN payment, NEW d \in Debts PROVE TellsPayment(new, p, d)
  <2>1. \A n \in new : n.type = "payment_marked" /\ n.of # p
    BY <1>12 DEF Notice
  <2>2. /\ Notice("payment_marked", p, Creditor[d]) \notin new
        /\ Notice("payment_confirmed", p, Debtor[d]) \notin new
        /\ Notice("payment_rejected", p, Debtor[d]) \notin new
    BY <2>1 DEF Notice
  <2> QED
    BY <1>10, <2>2 DEF TellsPayment, Once
<1>16. ASSUME NEW p \in ids, NEW d \in Debts, payment'[p].debt = d
       PROVE  TellsMarked(new, p, d)
  <2>1. Notice("payment_marked", p, Creditor[d]) \in new
    BY <1>11, <1>16 DEF new, MarkedNotices
  <2>2. \A n \in new : n.type = "payment_marked"
    BY <1>12 DEF Notice
  <2>3. /\ Notice("payment_confirmed", p, Debtor[d]) \notin new
        /\ Notice("payment_rejected", p, Debtor[d]) \notin new
    BY <2>2 DEF Notice
  <2> QED
    BY <1>11, <2>1, <2>3 DEF TellsMarked
<1>17. Announced'
  <2>1. PaymentsStay
    BY <1>10 DEF PaymentsStay
  <2>2. BagsOK'
    BY <1>1 DEF CallsInv, BagsOK
  <2> QED
    BY <1>8, <1>13, <1>14, <1>15, <1>16, <2>1, <2>2, ToldIsAnnounced DEF CallsInv
<1> QED
  BY <1>1, <1>4, <1>7, <1>17 DEF CallsInv, BagsOK

\* A creditor reviews a payment, and the debtor is to be told.
LEMMA ReviewKeeps ==
  ASSUME CallsInv, NEW r \in Requests, NEW op \in {"payment_confirmed", "payment_rejected"},
         NEW user \in Users, NEW p \in DOMAIN payment, Review(r, op, user, p)
  PROVE  CallsInv'
<1>0. PICK n : n = Notice(op, p, payment[p].paidBy)
  OBVIOUS
<1> DEFINE c == Announcing({n})
<1>1. \/ op = "payment_confirmed" /\ ConfirmPayment(p, user)
      \/ op = "payment_rejected" /\ RejectPayment(p, user)
  BY DEF Review
<1>2. /\ IsFree(r) /\ call' = [call EXCEPT ![r] = c]
      /\ UNCHANGED <<told, lost, request>>
  BY <1>0, <1>1 DEF Review, ConfirmPayment, RejectPayment
<1>3. Inv'
  BY <1>1, ConfirmInv, RejectPaymentInv DEF CallsInv
<1>4. c.at = "announcing" /\ c.todo = {n}
  BY DEF Announcing
<1> HIDE DEF c
<1>5. OneAtATime'
  <2>1. request'[r] = Idle
    BY <1>2 DEF IsFree
  <2> QED
    BY <1>2, <2>1, HandlerGoesOn DEF CallsInv
<1>6. Adds({n})
  <2>1. Pending(r) = {}
    BY <1>2 DEF IsFree, Free, Pending
  <2> QED
    BY <1>2, <1>4, <2>1, HandlerAdds DEF CallsInv
<1>7. PICK s \in {"confirmed", "rejected"} :
        /\ payment' = [payment EXCEPT ![p].status = s]
        /\ s = "confirmed" <=> op = "payment_confirmed"
  BY <1>1 DEF ConfirmPayment, RejectPayment
<1>8. /\ DOMAIN payment' = DOMAIN payment
      /\ payment'[p].status = s /\ payment'[p].debt = payment[p].debt
      /\ \A q \in DOMAIN payment \ {p} : payment'[q] = payment[q]
  BY <1>7 DEF CallsInv, Inv, TypeOK, PaymentRow
<1>9. payment[p].status = "pending_confirmation"
  BY <1>1 DEF ConfirmPayment, RejectPayment
<1>10. payment[p].debt \in Debts /\ payment[p].paidBy = Debtor[payment[p].debt]
  BY DEF CallsInv, Inv, TypeOK, PaymentRow, PaymentFitsDebt
<1>11. ASSUME NEW q \in DOMAIN payment, NEW d \in Debts, payment[q].debt = d
       PROVE  TellsPayment({n}, q, d)
  <2>1. /\ Notice("payment_marked", q, Creditor[d]) \notin {n}
        /\ Notice("payment_confirmed", q, Debtor[d]) \in {n} <=> op = "payment_confirmed" /\ q = p
        /\ Notice("payment_rejected", q, Debtor[d]) \in {n} <=> op = "payment_rejected" /\ q = p
    BY <1>0, <1>10, <1>11 DEF Notice
  <2>2. CASE q = p
    BY <1>7, <1>8, <1>9, <2>1, <2>2 DEF TellsPayment, Once
  <2>3. CASE q # p
    BY <1>8, <2>1, <2>3 DEF TellsPayment, Once
  <2> QED
    BY <2>2, <2>3
<1>12. ASSUME NEW d \in Debts PROVE TellsDebt({n}, d)
  <2>1. /\ Notice("debt_accepted", d, Creditor[d]) \notin {n}
        /\ Notice("debt_rejected", d, Creditor[d]) \notin {n}
        /\ Notice("debt_resent", d, Debtor[d]) \notin {n}
    BY <1>0 DEF Notice
  <2>2. debt'[d].status = debt[d].status
        \/ /\ debt[d].status \in PayableStatuses
           /\ debt'[d].status \in {"settled", "partially_settled"}
    <3>1. CASE RejectPayment(p, user)
      BY <3>1 DEF RejectPayment
    <3>2. CASE ConfirmPayment(p, user)
      <4>1. /\ debt[payment[p].debt].status \in PayableStatuses
            /\ debt' = [debt EXCEPT ![payment[p].debt] = PaidDown(@, payment[p].amount)]
        BY <3>2 DEF ConfirmPayment
      <4>2. CASE d # payment[p].debt
        BY <4>1, <4>2 DEF CallsInv, Inv, TypeOK
      <4>3. CASE d = payment[p].debt
        BY <4>1, <4>3 DEF CallsInv, Inv, TypeOK, PaidDown, DebtRow
      <4> QED
        BY <4>2, <4>3
    <3> QED
      BY <1>1, <3>1, <3>2
  <2>3. /\ (debt'[d].status \notin {"pending", "rejected"}) = (debt[d].status \notin {"pending", "rejected"})
        /\ (debt'[d].status = "rejected") = (debt[d].status = "rejected")
    BY <2>2 DEF PayableStatuses
  <2> QED
    BY <2>1, <2>3 DEF TellsDebt, Once
<1>13. Addressed(n)'
  BY <1>0, <1>8, <1>10 DEF Notice, Addressed, Addressee, DebtNotices, PaymentNotices
<1>14. Announced'
  <2>1. PaymentsStay
    BY <1>8 DEF PaymentsStay
  <2>2. BagsOK'
    BY <1>2 DEF CallsInv, BagsOK
  <2> QED
    BY <1>6, <1>8, <1>11, <1>12, <1>13, <2>1, <2>2, ToldIsAnnounced DEF CallsInv
<1> QED
  BY <1>2, <1>3, <1>5, <1>14 DEF CallsInv, BagsOK

\* A notice is written or lost.
LEMMA AnnounceKeeps ==
  ASSUME CallsInv, NEW r \in Requests, Announce(r) \/ AnnounceFails(r)
  PROVE  CallsInv'
<1>1. PICK n \in Pending(r) :
        /\ Settle(r, n)
        /\ UNCHANGED vars
        /\ \/ told' = told (+) SetToBag({n}) /\ lost' = lost
           \/ lost' = lost (+) SetToBag({n}) /\ told' = told
  BY DEF Announce, AnnounceFails
<1>2. UNCHANGED <<debt, payment, request>>
  BY <1>1 DEF vars
<1>3. Inv'
  BY <1>2, RequestInv DEF CallsInv, Inv, TypeOK
<1>4. Adds({}) /\ BagsOK'
  BY <1>1, SettledStaysDue DEF CallsInv
<1> DEFINE c == IF Pending(r) = {n} THEN Free ELSE Announcing(Pending(r) \ {n})
<1>5. call' = [call EXCEPT ![r] = c]
  BY <1>1 DEF Settle
<1>6. request[r] = Idle
  BY <1>1 DEF CallsInv, OneAtATime, Pending, Free
<1> HIDE DEF c
<1>7. OneAtATime'
  BY <1>2, <1>5, <1>6, HandlerGoesOn DEF CallsInv
<1> QED
  BY <1>2, <1>3, <1>4, <1>7, QuietStep DEF CallsInv

\* The process dies.
LEMMA CrashKeeps ==
  ASSUME CallsInv, Crash
  PROVE  CallsInv'
<1>1. /\ call' = [r \in Requests |-> Free] /\ request' = [r \in Requests |-> Idle]
      /\ UNCHANGED <<debt, payment, told>>
  BY DEF Crash
<1>2. Inv'
  BY <1>1, RequestInv DEF CallsInv
<1>3. Adds({}) /\ BagsOK'
  BY CrashStaysDue DEF CallsInv
<1>4. OneAtATime'
  BY <1>1 DEF OneAtATime, Free
<1> QED
  BY <1>1, <1>2, <1>3, <1>4, QuietStep DEF CallsInv

\* No notice is due and no call is under way.
LEMMA CallsInitInv == CallsInit => CallsInv
<1> SUFFICES ASSUME CallsInit PROVE CallsInv
  OBVIOUS
<1>1. Init /\ call = [r \in Requests |-> Free] /\ told = EmptyBag /\ lost = EmptyBag
  BY DEF CallsInit
<1>2. Inv
  BY <1>1, InitInv
<1>3. BagsOK /\ \A n : Copies(n, told) = 0 /\ Copies(n, lost) = 0
  BY <1>1 DEF BagsOK, IsABag, EmptyBag, SetToBag, Copies, BagIn, BagToSet
<1>4. OneAtATime
  BY <1>1 DEF OneAtATime, Free
<1>5. \A n : Due(n) = 0
  <2>1. \A n : Writers(n) = {}
    BY <1>1 DEF Writers, Pending, Free
  <2> QED
    BY <1>3, <2>1, FS_EmptySet, DueIs
<1>6. \A d \in Debts : debt[d].status = "pending"
  <2>1. PICK share \in [Debts -> Amounts] :
          debt = [d \in Debts |-> [status |-> "pending", original |-> share[d],
                                   remaining |-> share[d]]]
    BY <1>1 DEF Init
  <2> QED
    BY <2>1
<1>7. DOMAIN payment = {}
  BY <1>1 DEF Init
<1>8. Announced
  BY <1>5, <1>6, <1>7 DEF Announced, DebtAnnounced, Once
<1> QED
  BY <1>2, <1>3, <1>4, <1>8 DEF CallsInv

LEMMA CallsNextInv == CallsInv /\ [CallsNext]_allVars => CallsInv'
<1> SUFFICES ASSUME CallsInv, [CallsNext]_allVars PROVE CallsInv'
  OBVIOUS
<1>1. ASSUME NEW r \in Requests, DebtCall(r) PROVE CallsInv'
  BY <1>1, DecideKeeps, RefusalKeeps DEF DebtCall
<1>2. ASSUME NEW r \in Requests, LookUp(r) \/ Answer(r) PROVE CallsInv'
  BY <1>2, RefusalKeeps
<1>3. ASSUME NEW r \in Requests, ReviewCall(r) PROVE CallsInv'
  BY <1>3, ReviewKeeps DEF ReviewCall
<1>4. CASE UNCHANGED allVars
  <2>1. UNCHANGED <<debt, payment, request, call, told, lost>>
    BY <1>4 DEF allVars, vars, callVars
  <2>2. Inv'
    BY <2>1, RequestInv DEF CallsInv, Inv, TypeOK
  <2>3. BagsOK' /\ OneAtATime'
    BY <2>1 DEF CallsInv, BagsOK, OneAtATime
  <2>4. Adds({})
    BY <2>1, NothingNew DEF CallsInv, Pending
  <2> QED
    BY <2>1, <2>2, <2>3, <2>4, QuietStep DEF CallsInv
<1> QED
  BY <1>1, <1>2, <1>3, <1>4, MarkKeeps, MarkDoneKeeps, AnnounceKeeps, CrashKeeps DEF CallsNext

LEMMA CallsInvAlways == CallsSpec => []CallsInv
BY CallsInitInv, CallsNextInv, PTL DEF CallsSpec

-------------------------------------------------------------------------------
(* Theorems. *)

\* Every change of the ledger is announced once to the other party, or lost for a
\* failure, however calls, failing statements and crashes interleave.
THEOREM ChangesAreAnnouncedOnce == CallsSpec => []EveryChangeIsAnnounced
<1>1. CallsInv => EveryChangeIsAnnounced
  <2> SUFFICES ASSUME CallsInv PROVE EveryChangeIsAnnounced
    OBVIOUS
  <2>1. ASSUME NEW n \in BagToSet(told) PROVE n.to = Addressee(n)
    <3>1. Due(n) # 0
      BY CopiesAreNat, WritersAreNat, DueIs DEF CallsInv, BagsOK, BagToSet
    <3> QED
      BY <3>1 DEF CallsInv, Announced, Addressed
  <2>2. \A p \in DOMAIN payment : payment[p].debt \in Debts
    BY DEF CallsInv, Inv, TypeOK, PaymentRow
  <2> QED
    BY <2>1, <2>2 DEF CallsInv, Announced, DebtAnnounced, PaymentAnnounced, EveryChangeIsAnnounced
<1> QED
  BY <1>1, CallsInvAlways, PTL

\* The books of the ledger stay right although a crash ends all its requests at once.
THEOREM BooksSurviveCrashes ==
  CallsSpec => [](MoneyConserved /\ StatusTellsRemaining /\ PaymentsNeedAcceptance)
<1>1. CallsInv => MoneyConserved /\ StatusTellsRemaining /\ PaymentsNeedAcceptance
  BY DEF CallsInv, Inv
<1> QED
  BY <1>1, CallsInvAlways, PTL
===============================================================================
