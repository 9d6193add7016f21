----------------------------- MODULE MCDashboard -----------------------------
(* A finite instance of Dashboard: "ann" and "bob" owe each other. *)
EXTENDS Dashboard, TLC

CONSTANTS d1, d2, p1, p2, r1, ann, bob

MCDebtor == [d \in Debts |-> IF d = d1 THEN ann ELSE bob]
MCCreditor == [d \in Debts |-> IF d = d1 THEN bob ELSE ann]
MCGroupOwner == [d \in Debts |-> bob]

MCSymmetry == Permutations(Payments)
===============================================================================
