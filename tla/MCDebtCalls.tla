------------------------------ MODULE MCDebtCalls ------------------------------
(* A finite instance of DebtCalls: "ann" owes "bob" both debts and owns the   *)
(* group of one of them.                                                      *)
EXTENDS DebtCalls, TLC

CONSTANTS d1, d2, p1, p2, r1, r2, ann, bob

MCDebtor == [d \in Debts |-> ann]
MCCreditor == [d \in Debts |-> bob]
MCGroupOwner == [d \in Debts |-> IF d = d1 THEN bob ELSE ann]

MCSymmetry == Permutations(Payments) \cup Permutations(Requests)

\* Four changes are told or lost: two debts accepted and paid in bulk, or one that
\* goes round rejection and review and is decided again; the next is under way.
FewChanges == BagCardinality(told (+) lost) <= 4

\* A mark by another user is refused in one step of Ledger.
RightMarkers == \A r \in Requests : request[r] # Idle => request[r].user = ann

\* Debts are of one unit, and bulk marks of two.
SmallDebts == \A d \in Debts : debt[d].original = 1
===============================================================================
