-------------------------------- MODULE Money --------------------------------
(***************************************************************************)
(* internal/money: amounts are int64 numbers of minor units, and signed    *)
(* overflow wraps, as it does in Go.  An amount's text is abstracted to    *)
(* the number before the point and the digits after it; texts that are not *)
(* digits are refused on sight and left out.                               *)
(***************************************************************************)
EXTENDS Integers, Sequences

CONSTANT MaxInt     \* math.MaxInt64

ASSUME MoneyAssumption == MaxInt \in Nat

-------------------------------------------------------------------------------
MinorUnitsPerMajor == 100

\* The pair of a value and an error that a Go function returns.
Returns(value) == [value |-> value, err |-> "nil"]
Fails(err) == [value |-> 0, err |-> err]

\* int64 arithmetic.
Int64 == (-(MaxInt + 1))..MaxInt

Wrap(n) == ((n + MaxInt + 1) % (2 * (MaxInt + 1))) - (MaxInt + 1)

\* The two digits after the point, padded with a zero, as a number.
Cents(fraction) ==
    CASE fraction = <<>>    -> 0
      [] Len(fraction) = 1  -> 10 * fraction[1]
      [] OTHER              -> 10 * fraction[1] + fraction[2]

\* Mutant: the bound on the major part forgets the minor part.
ParseMinorLoose(major, fraction) ==
    IF Len(fraction) > 2 \/ major > MaxInt \div MinorUnitsPerMajor
    THEN Fails("ErrInvalidAmount")
    ELSE Returns(Wrap(major * MinorUnitsPerMajor + Cents(fraction)))

ParseMinor(major, fraction) ==
    IF \/ Len(fraction) > 2
       \/ major > MaxInt
       \/ major > (MaxInt - Cents(fraction)) \div MinorUnitsPerMajor
    THEN Fails("ErrInvalidAmount")
    ELSE Returns(Wrap(major * MinorUnitsPerMajor + Cents(fraction)))

\* The text of an amount that is not negative.
FormatMinor(amount) ==
    LET cents == amount % MinorUnitsPerMajor
    IN  [major |-> amount \div MinorUnitsPerMajor,
         fraction |-> <<cents \div 10, cents % 10>>]

\* Mutant: the remainder goes to one participant too many.
SplitEqualOffByOne(total, participants) ==
    IF total <= 0 \/ participants <= 0 THEN Fails("ErrInvalidSplit")
    ELSE LET base == total \div participants
             remainder == total % participants
         IN  IF base = 0 THEN Fails("ErrInvalidSplit")
             ELSE Returns([i \in 1..participants |->
                             IF i >= participants - remainder THEN base + 1 ELSE base])

\* The code counts participants from 0: its i is i - 1 here.
SplitEqual(total, participants) ==
    IF total <= 0 \/ participants <= 0 THEN Fails("ErrInvalidSplit")
    ELSE LET base == total \div participants
             remainder == total % participants
         IN  IF base = 0 THEN Fails("ErrInvalidSplit")
             ELSE Returns([i \in 1..participants |->
                             IF i - 1 >= participants - remainder THEN base + 1 ELSE base])

\* What the variable of a loop holds after each of the numbers it adds up.
RunningSum(numbers) ==
    LET sum[i \in 0..Len(numbers)] == IF i = 0 THEN 0 ELSE Wrap(sum[i - 1] + numbers[i])
    IN  sum

\* Mutant: the running sum is not protected against overflow.
ValidateManualSplitWrapping(total, shares) ==
    LET sum == RunningSum(shares)
    IN  IF total <= 0 \/ shares = <<>> THEN "ErrInvalidSplit"
        ELSE IF \E i \in DOMAIN shares : shares[i] <= 0 THEN "ErrInvalidSplit"
        ELSE IF sum[Len(shares)] # total THEN "ErrSplitMismatch"
        ELSE "nil"

ValidateManualSplit(total, shares) ==
    LET sum == RunningSum(shares)
    IN  IF total <= 0 \/ shares = <<>> THEN "ErrInvalidSplit"
        ELSE IF \E i \in DOMAIN shares : shares[i] <= 0 \/ sum[i - 1] > MaxInt - shares[i]
             THEN "ErrInvalidSplit"
        ELSE IF sum[Len(shares)] # total THEN "ErrSplitMismatch"
        ELSE "nil"

\* Mutant: the whole of the debts can no longer be paid at once.
BulkAdmitsLess(amount, remaining) == amount < RunningSum(remaining)[Len(remaining)]

\* Mutant: the check is dropped.
BulkAdmitsAll(amount, remaining) == TRUE

\* payments.BulkMark adds the remaining amounts with no check for overflow.
BulkAdmits(amount, remaining) == amount <= RunningSum(remaining)[Len(remaining)]
===============================================================================
