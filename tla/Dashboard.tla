------------------------------ MODULE Dashboard ------------------------------
(***************************************************************************)
(* GET /v1/dashboard: internal/dashboard and its handler, reading the rows *)
(* of Ledger while the ledger goes on.                                     *)
(*                                                                         *)
(* A snapshot is three SELECTs with no transaction around them; at READ    *)
(* COMMITTED each sees what was committed when it started.  A reader       *)
(* changes nothing, so one of them shows what any number would see.        *)
(***************************************************************************)
EXTENDS Ledger

CONSTANTS
    Readers,       \* the users whose snapshots are looked at
    PreviewLimit   \* LIMIT of ListDashboardUnsettledBalances

ASSUME DashboardAssumption ==
    /\ Readers \subseteq Users
    /\ PreviewLimit \in Nat

VARIABLE
    reader     \* the request under way and what it has read

dashboardVars == <<vars, reader>>

-------------------------------------------------------------------------------
(* The queries. *)

NoReader == [stage |-> "idle"]

OwedBy(user) == {d \in Debts : Debtor[d] = user}
OwedTo(user) == {d \in Debts : Creditor[d] = user}

Remaining(ds) == [d \in ds |-> debt[d].remaining]

\* Mutant: a debt counts as soon as it is entered.
PayableUnconfirmed(ds) ==
    {d \in ds : debt[d].status \in PayableStatuses \cup {"pending"}}

Payable(ds) == {d \in ds : debt[d].status \in PayableStatuses}

\* GetDashboardTotalsForUser.
Totals(user) ==
    [owed       |-> Total(Remaining(Payable(OwedBy(user)))),
     owedCount  |-> Cardinality(Payable(OwedBy(user))),
     receivable |-> Total(Remaining(Payable(OwedTo(user)))),
     receivableCount |-> Cardinality(Payable(OwedTo(user)))]

TypeFor(user, d) == IF Debtor[d] = user THEN "owed" ELSE "receivable"
OtherFor(user, d) == IF Debtor[d] = user THEN Creditor[d] ELSE Debtor[d]

\* The debts that the user is asked to accept or reject.
Tasks(user) == {d \in OwedBy(user) : debt[d].status = "pending"}

Previewable(user) ==
    {d \in OwedBy(user) \cup OwedTo(user) :
       /\ debt[d].status \in PayableStatuses \cup {"pending"}
       /\ debt[d].remaining > 0}

\* ListDashboardUnsettledBalances: tasks first, then by times that are left out.
Previews(user) ==
    {ds \in SUBSET Previewable(user) :
       /\ Cardinality(ds) = Least(PreviewLimit, Cardinality(Previewable(user)))
       /\ Tasks(user) \subseteq ds \/ ds \subseteq Tasks(user)}

\* Mutant: the debts of a person are not told apart by direction.
PersonDebtsBothWays(user, type, other) ==
    {d \in Payable(OwedBy(user) \cup OwedTo(user)) :
       /\ debt[d].remaining > 0
       /\ OtherFor(user, d) = other}

\* ListDashboardPersonBalances: one row for each person and direction.
PersonDebts(user, type, other) ==
    {d \in Payable(OwedBy(user) \cup OwedTo(user)) :
       /\ debt[d].remaining > 0
       /\ TypeFor(user, d) = type
       /\ OtherFor(user, d) = other}

PersonBalance(user, type, other) ==
    [type |-> type, other |-> other,
     amount |-> Total(Remaining(PersonDebts(user, type, other))),
     count |-> Cardinality(PersonDebts(user, type, other)),
     hasPendingPayment |-> \E d \in PersonDebts(user, type, other) :
                             PaymentsOn(d, "pending_confirmation") # {}]

PersonBalances(user) ==
    {PersonBalance(user, TypeFor(user, d), OtherFor(user, d)) :
       d \in {e \in Payable(OwedBy(user) \cup OwedTo(user)) : debt[e].remaining > 0}}

-------------------------------------------------------------------------------
(* A request. *)

Taken == {d \in Debts : debt[d].status \notin {"pending", "rejected"}}

\* taken remembers which debts had been accepted by then, to state properties.
ReadTotals(user) ==
    /\ reader = NoReader
    /\ reader' = [stage |-> "list", user |-> user, totals |-> Totals(user),
                  taken |-> Taken]
    /\ UNCHANGED vars

\* Mutant: the preview shows the original amounts.
ReadUnsettledOriginal ==
    /\ reader.stage = "list"
    /\ \E ds \in Previews(reader.user) :
         reader' = [stage |-> "persons", user |-> reader.user, totals |-> reader.totals,
                    taken |-> reader.taken,
                    preview |-> [d \in ds |-> [type |-> TypeFor(reader.user, d),
                                               status |-> debt[d].status,
                                               remaining |-> debt[d].original]]]
    /\ UNCHANGED vars

ReadUnsettled ==
    /\ reader.stage = "list"
    /\ \E ds \in Previews(reader.user) :
         reader' = [stage |-> "persons", user |-> reader.user, totals |-> reader.totals,
                    taken |-> reader.taken,
                    preview |-> [d \in ds |-> [type |-> TypeFor(reader.user, d),
                                               status |-> debt[d].status,
                                               remaining |-> debt[d].remaining]]]
    /\ UNCHANGED vars

ReadPersons ==
    /\ reader.stage = "persons"
    /\ reader' = [stage |-> "done", user |-> reader.user, totals |-> reader.totals,
                  taken |-> reader.taken, preview |-> reader.preview,
                  persons |-> PersonBalances(reader.user)]
    /\ UNCHANGED vars

\* The answer is written, or a query has failed.
EndRead ==
    /\ reader # NoReader
    /\ reader' = NoReader
    /\ UNCHANGED vars

Read ==
    \/ \E user \in Readers : ReadTotals(user)
    \/ ReadUnsettled
    \/ ReadPersons
    \/ EndRead

DashboardInit == Init /\ reader = NoReader

DashboardNext == (Next /\ UNCHANGED reader) \/ Read

DashboardSpec == DashboardInit /\ [][DashboardNext]_dashboardVars

-------------------------------------------------------------------------------
(* Properties. *)

Directions == {"owed", "receivable"}

\* The sum of numbers that may be larger than one amount, unit by unit.
SumOf(number) ==
    Cardinality(UNION {{row} \X (1..number[row]) : row \in DOMAIN number})

AmountsIn(rows) == [row \in rows |-> row.amount]
CountsIn(rows) == [row \in rows |-> row.count]

OfType(rows, type) == {row \in rows : row.type = type}

\* The three queries select debts by different conditions (only two of them look
\* at the remaining amount) and yet agree whenever they see the same rows: the
\* balances of all persons add up to the totals, and all debts are counted once.
\* It speaks of the ledger alone, whose every state occurs with no reader.
QueriesAgree ==
    reader = NoReader =>
      \A user \in Readers :
        LET rows(type) == OfType(PersonBalances(user), type)
            totals == Totals(user)
        IN  /\ SumOf(AmountsIn(rows("owed"))) = totals.owed
            /\ SumOf(CountsIn(rows("owed"))) = totals.owedCount
            /\ SumOf(AmountsIn(rows("receivable"))) = totals.receivable
            /\ SumOf(CountsIn(rows("receivable"))) = totals.receivableCount
            /\ Payable(OwedBy(user) \cup OwedTo(user)) \subseteq Previewable(user)

\* The debts of one direction that were accepted since the totals were read.
AcceptedSince(type) ==
    {d \in Taken \ reader.taken :
       /\ reader.user \in {Debtor[d], Creditor[d]}
       /\ TypeFor(reader.user, d) = type}

\* The totals read first, and what was accepted afterwards.
Limit(type) ==
    reader.totals[type] + Total([d \in AcceptedSince(type) |-> debt[d].original])

\* The preview's accepted debts of one direction.
Previewed(type) ==
    [d \in {d \in DOMAIN reader.preview :
              /\ reader.preview[d].type = type
              /\ reader.preview[d].status \in PayableStatuses} |->
       reader.preview[d].remaining]

\* An answer whose three parts were read at different times shows no money that
\* nobody owes: whatever a later part shows beyond the totals was accepted meanwhile.
LaterPartsAddOnlyAcceptedDebts ==
    reader.stage = "done" =>
      \A type \in Directions :
        /\ SumOf(AmountsIn(OfType(reader.persons, type))) <= Limit(type)
        /\ Total(Previewed(type)) <= Limit(type)

\* What a user owes falls only when a creditor confirms his payment, and by that
\* payment's amount: no rejection, review or mark makes it less.
TotalsFallByConfirmation ==
    [][\A user \in Readers :
         Totals(user)'.owed < Totals(user).owed =>
           \E p \in DOMAIN payment :
             /\ payment[p].status = "pending_confirmation"
             /\ payment'[p].status = "confirmed"
             /\ payment[p].paidBy = user
             /\ Totals(user)'.owed = Totals(user).owed - payment[p].amount]_dashboardVars
===============================================================================
