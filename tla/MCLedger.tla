------------------------------ MODULE MCLedger -------------------------------
(* Finite instances of Ledger: every debt is owed by "ann" to "bob". *)
EXTENDS Ledger, TLC

CONSTANTS d1, d2, p1, p2, p3, r1, r2, ann, bob

MCDebtor == [d \in Debts |-> ann]
MCCreditor == [d \in Debts |-> bob]
MCGroupOwner == [d \in Debts |-> bob]

\* Payment ids and requests are interchangeable; no property is a liveness one.
MCSymmetry == Permutations(Payments) \cup Permutations(Requests)
===============================================================================
