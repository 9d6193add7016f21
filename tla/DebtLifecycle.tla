---------------------------- MODULE DebtLifecycle ----------------------------
(***************************************************************************)
(* What the API promises about one debt, whoever calls it and in whatever  *)
(* order: the status diagram of the debt, the amount the two users agreed  *)
(* on, and the part of it that is still owed.  Requests, payments, rows    *)
(* and locks do not appear here; Ledger is shown to implement this module. *)
(***************************************************************************)
EXTENDS Integers

CONSTANTS
    Debts,      \* the debts that expenses created
    MaxAmount   \* the largest amount of money, in minor units

VARIABLES
    status,     \* status[d]: where debt d stands
    agreed,     \* agreed[d]: what the debtor is asked to pay in all
    owed        \* owed[d]: what is still unpaid of it

lifecycleVars == <<status, agreed, owed>>

Amounts == 1..MaxAmount

Statuses == {"pending", "accepted", "rejected", "partially_settled", "settled"}

\* The statuses in which money may be paid against the debt.
Payable == {"accepted", "partially_settled"}

LifecycleInit ==
    /\ status = [d \in Debts |-> "pending"]
    /\ agreed \in [Debts -> Amounts]
    /\ owed = agreed

\* The debtor takes the debt on, or refuses it.
Decide(d) ==
    /\ status[d] = "pending"
    /\ \E decision \in {"accepted", "rejected"} :
         status' = [status EXCEPT ![d] = decision]
    /\ UNCHANGED <<agreed, owed>>

\* The group owner sends a refused debt back, perhaps with another amount.
Resend(d) ==
    /\ status[d] = "rejected"
    /\ \E amount \in Amounts :
         /\ agreed' = [agreed EXCEPT ![d] = amount]
         /\ owed' = [owed EXCEPT ![d] = amount]
    /\ status' = [status EXCEPT ![d] = "pending"]

\* A part of the debt, or all that is left of it, is paid.
Pay(d) ==
    /\ status[d] \in Payable
    /\ \E amount \in 1..owed[d] :
         /\ owed' = [owed EXCEPT ![d] = @ - amount]
         /\ status' = [status EXCEPT ![d] =
                         IF amount = owed[d] THEN "settled" ELSE "partially_settled"]
    /\ UNCHANGED agreed

LifecycleNext == \E d \in Debts : Decide(d) \/ Resend(d) \/ Pay(d)

LifecycleSpec == LifecycleInit /\ [][LifecycleNext]_lifecycleVars
==============================================================================
