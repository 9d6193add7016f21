------------------------------ MODULE MoneyCalls ------------------------------
(***************************************************************************)
(* Calls of internal/money, and of the sum in payments.BulkMark, each with *)
(* its arguments and its result, compared with exact arithmetic.           *)
(***************************************************************************)
EXTENDS Money, FiniteSets

CONSTANTS
    Majors,       \* numbers tried before the point
    Fractions,    \* digit sequences tried after it
    Totals,       \* amounts tried
    Counts,       \* numbers of participants tried
    ShareLists    \* sequences of shares tried

ASSUME MoneyCallsAssumption ==
    /\ Majors \subseteq Nat
    /\ Fractions \subseteq Seq(0..9)
    /\ Totals \subseteq Int64
    /\ Counts \subseteq Int64
    /\ ShareLists \subseteq Seq(Int64)

VARIABLE call     \* the call that was made last and its result

-------------------------------------------------------------------------------
NoCall == [op |-> "none"]

CallsInit == call = NoCall

CallParse ==
    \E major \in Majors, fraction \in Fractions :
      call' = [op |-> "parse", major |-> major, fraction |-> fraction,
               result |-> ParseMinor(major, fraction)]

CallFormat ==
    \E amount \in Totals :
      /\ amount >= 0
      /\ call' = [op |-> "format", amount |-> amount, result |-> FormatMinor(amount)]

CallSplitEqual ==
    \E total \in Totals, n \in Counts :
      call' = [op |-> "equal", total |-> total, participants |-> n,
               result |-> SplitEqual(total, n)]

CallManualSplit ==
    \E total \in Totals, shares \in ShareLists :
      call' = [op |-> "manual", total |-> total, shares |-> shares,
               result |-> ValidateManualSplit(total, shares)]

\* Some debts are locked; what remains of them is positive, and so is the amount asked for.
CallBulkTotal ==
    \E amount \in Totals, remaining \in ShareLists :
      /\ amount > 0
      /\ remaining # <<>>
      /\ \A i \in DOMAIN remaining : remaining[i] > 0
      /\ call' = [op |-> "bulk", amount |-> amount, remaining |-> remaining,
                  result |-> BulkAdmits(amount, remaining)]

Call == CallParse \/ CallFormat \/ CallSplitEqual \/ CallManualSplit \/ CallBulkTotal

CallsNext ==
    \/ call = NoCall /\ Call
    \/ call # NoCall /\ call' = NoCall

CallsSpec == CallsInit /\ [][CallsNext]_call

-------------------------------------------------------------------------------
(* Properties. *)

\* The sum of a list of amounts, counted unit by unit.
SumOf(amounts) ==
    Cardinality({u \in (DOMAIN amounts) \X (1..MaxInt) : u[2] <= amounts[u[1]]})

\* ParseMinor returns the exact amount when it fits in an int64 and refuses the
\* text otherwise, so no accepted text has wrapped around; and what FormatMinor
\* writes it reads back, up to the largest amount.
TextsAreExact ==
    /\ call.op = "parse" =>
         LET exact == call.major * MinorUnitsPerMajor + Cents(call.fraction)
         IN  call.result = IF Len(call.fraction) <= 2 /\ exact <= MaxInt
                           THEN Returns(exact) ELSE Fails("ErrInvalidAmount")
    /\ call.op = "format" =>
         ParseMinor(call.result.major, call.result.fraction) = Returns(call.amount)

\* An equal split loses and invents nothing, gives everyone a share, and no two
\* shares differ by more than one unit; it fails only when a share would be 0.
\* A manual split is accepted exactly when its shares are positive and their true
\* sum, not the sum modulo 2^64, is the total.
SplitsAreExact ==
    /\ call.op = "equal" =>
         LET share == call.result.value
         IN  IF call.result.err # "nil"
             THEN call.total < call.participants \/ call.total <= 0 \/ call.participants <= 0
             ELSE /\ DOMAIN share = 1..call.participants
                  /\ SumOf(share) = call.total
                  /\ \A i, j \in DOMAIN share : share[i] >= 1 /\ share[i] <= share[j] + 1
    /\ call.op = "manual" =>
         (call.result = "nil" <=>
            /\ call.shares # <<>>
            /\ \A i \in DOMAIN call.shares : call.shares[i] > 0
            /\ SumOf(call.shares) = call.total)

\* The unchecked sum of BulkMark refuses an amount that the debts together can take
\* only when their true sum is more than an int64 holds, and never admits another:
\* an overflow may cost an honest payment, never let through a wrong one.
OnlyOverflowRefuses ==
    call.op = "bulk" =>
      LET total == SumOf(call.remaining)
      IN  /\ call.result => call.amount <= total
          /\ ~call.result => call.amount > total \/ total > MaxInt
===============================================================================
