------------------------------ MODULE MCExpenses ------------------------------
(* A finite instance of Expenses: three users, one of whom has two spellings. *)
EXTENDS Expenses, TLC

CONSTANTS ann, bob, cat, g1, e1, e2, r1, r2

MCUserOf == [ann |-> ann, ANN |-> ann, bob |-> bob, cat |-> cat]

Body(creator, payer, split, total, participants, shares) ==
    [group |-> g1, createdBy |-> creator, paidBy |-> payer, splitType |-> split,
     total |-> total, participants |-> participants, shares |-> shares]

Lists ==
    {<<"ann", "bob">>, <<"ANN", "cat">>, <<"cat", "ann", "bob">>,
     <<"ann", "ANN", "bob">>, <<"ann">>, <<"ann", "ann">>, <<>>}

MCInputs ==
    {Body(ann, "ann", "equal", 4, list, [i \in DOMAIN list |-> 0]) : list \in Lists}
      \cup {Body(bob, "cat", "equal", 1, list, [i \in DOMAIN list |-> 0]) : list \in Lists}
      \cup {Body(bob, "bob", "manual", 4, list, [i \in DOMAIN list |-> i]) : list \in Lists}
      \cup {Body(bob, "bob", "manual", 3, <<"ANN", "cat">>, <<2, 1>>)}

\* Rejected and reviewed debts are followed where there is one expense and it is only
\* being read: the other requests read no debt.
Decided == resent # {} \/ \E d \in debt : d.status = "rejected"
DecisionsAlone ==
    Decided => /\ Cardinality(DOMAIN expense) = 1
               /\ \A r \in Requests : request[r].kind \in {"idle", "get"}

MCSymmetry == Permutations(Requests) \cup Permutations(ExpenseIds)
===============================================================================
