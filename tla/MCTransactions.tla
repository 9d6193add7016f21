---------------------------- MODULE MCTransactions -----------------------------
(* Finite instances of Transactions: every debt is owed by "ann" to "bob". *)
EXTENDS Transactions, TLC

CONSTANTS d1, d2, p1, p2, t1, t2, ann, bob, none

MCDebtor == [d \in Debts |-> ann]
MCCreditor == [d \in Debts |-> bob]

\* Only the debtor marks and only the creditor reviews: another caller takes
\* the same locks and is then refused.
RightCallers ==
    \A t \in Txs :
      CASE tx[t].op \in {"mark", "bulk"} -> tx[t].request.user = ann
        [] tx[t].op \in {"confirm", "reject"} -> tx[t].request.user = bob
        [] OTHER -> TRUE

\* Debts are of two units, so that one can be paid in part.
FullDebts == \A d \in Debts : debt[d].original = MaxAmount

\* The steps that lead to a second payment are checked, and not followed.
OnePayment == DOMAIN payment \subseteq {p1}
===============================================================================
