---------------------------- MODULE ExpensesProofs ----------------------------
(***************************************************************************)
(* Proofs about Money, MoneyCalls and Expenses.                            *)
(*                                                                         *)
(* Money first: what parsing, formatting and splitting amounts and adding  *)
(* them up in a loop computes, for every largest amount, every list and    *)
(* every length.  A loop's variable is a recursive function; it is         *)
(* compared with the exact sums by looking at the first place where they   *)
(* part.                                                                   *)
(*                                                                         *)
(* Then expenses: only members of a group share its expenses, the debtors  *)
(* of an expense are told of their debts once, and an expense is whole.    *)
(* All rest on the ids of expenses: an id that one transaction writes      *)
(* under is written under by no other, and no committed row has it.        *)
(***************************************************************************)
EXTENDS Expenses, MoneyCalls, FiniteSetTheorems, FunctionTheorems, WellFoundedInduction, TLAPS

-------------------------------------------------------------------------------
(* int64 arithmetic. *)

LEMMA WrapIn ==
  ASSUME NEW n \in Int
  PROVE  Wrap(n) \in Int64
  BY MoneyAssumption DEF Wrap, Int64

\* What fits is left as it is.
LEMMA WrapFits ==
  ASSUME NEW n \in Int64
  PROVE  Wrap(n) = n
  BY MoneyAssumption DEF Wrap, Int64

\* Overflow makes a number smaller.
LEMMA WrapFalls ==
  ASSUME NEW n \in Int, -(MaxInt + 1) <= n
  PROVE  Wrap(n) <= n
  BY MoneyAssumption DEF Wrap

-------------------------------------------------------------------------------
(* Sums, one number after the other. *)

\* A nonempty set of natural numbers has a least one.
LEMMA LeastNumber ==
  ASSUME NEW S \in SUBSET Nat, S # {}
  PROVE  \E m \in S : \A k \in S : m <= k
<1>1. PICK m \in S : \A k \in S : ~(<<k, m>> \in OpToRel(<, Nat))
  BY NatLessThanWellFounded, WFMin
<1>2. \A k \in S : ~(k < m)
  BY <1>1 DEF OpToRel
<1> QED
  BY <1>2

\* What holds of 0, and of every number up to n if it holds of the one before.
LEMMA UpTo ==
  ASSUME NEW n \in Nat, NEW S, 0 \in S, \A i \in 1..n : i - 1 \in S => i \in S
  PROVE  0..n \subseteq S
<1> DEFINE missing == {i \in 0..n : i \notin S}
<1> SUFFICES ASSUME missing # {} PROVE FALSE
  OBVIOUS
<1>1. missing \in SUBSET Nat
  OBVIOUS
<1>2. PICK i \in missing : \A k \in missing : i <= k
  BY <1>1, LeastNumber
<1>3. i \in 1..n /\ i - 1 \in 0..n /\ i \notin S
  BY <1>2
<1>4. i - 1 \notin missing
  BY <1>2, <1>3
<1> QED
  BY <1>3, <1>4

\* The body of a loop over n numbers: what it makes of its variable and the i-th.
LoopBody(n, step) == \A x \in Int : \A i \in 1..n : step[<<x, i>>] \in Int

\* Such a loop computes something.
LEMMA LoopsRun ==
  ASSUME NEW n \in Nat, NEW step, LoopBody(n, step)
  PROVE  \E f \in [0..n -> Int] : f[0] = 0 /\ \A i \in 1..n : f[i] = step[<<f[i - 1], i>>]
<1> DEFINE runs(f, k) == f[0] = 0 /\ \A i \in 1..k : f[i] = step[<<f[i - 1], i>>]
           S == {k \in 0..n : \E f \in [0..k -> Int] : runs(f, k)}
<1>1. 0 \in S
  <2>1. PICK f : f = [i \in 0..0 |-> 0]
    OBVIOUS
  <2>2. f \in [0..0 -> Int] /\ runs(f, 0)
    BY <2>1
  <2> HIDE DEF runs
  <2> QED
    BY <2>2
<1>2. ASSUME NEW k \in 1..n, k - 1 \in S PROVE k \in S
  <2>1. PICK f \in [0..(k - 1) -> Int] : runs(f, k - 1)
    BY <1>2
  <2>2. PICK last \in Int : last = step[<<f[k - 1], k>>]
    <3>1. k - 1 \in 0..(k - 1)
      OBVIOUS
    <3>2. f[k - 1] \in Int
      BY <3>1
    <3> QED
      BY <3>2 DEF LoopBody
  <2> DEFINE g == [i \in 0..k |-> IF i = k THEN last ELSE f[i]]
  <2>3. \A i \in 0..k : i # k => i \in 0..(k - 1)
    OBVIOUS
  <2>4. g \in [0..k -> Int]
    BY <2>3
  <2>5. g[0] = 0
    BY <2>1
  <2>6. ASSUME NEW i \in 1..k PROVE g[i] = step[<<g[i - 1], i>>]
    <3>1. i \in 0..k /\ i - 1 \in 0..k /\ i - 1 # k
      OBVIOUS
    <3>2. g[i - 1] = f[i - 1]
      BY <3>1
    <3>3. CASE i = k
      BY <2>2, <3>1, <3>2, <3>3
    <3>4. CASE i # k
      <4>1. i \in 1..(k - 1) /\ g[i] = f[i]
        BY <3>1, <3>4
      <4> QED
        BY <2>1, <3>2, <4>1
    <3> QED
      BY <3>3, <3>4
  <2> HIDE DEF g
  <2>7. runs(g, k)
    BY <2>5, <2>6
  <2> HIDE DEF runs
  <2> QED
    BY <2>4, <2>7
<1> HIDE DEF S
<1>3. n \in S
  <2>1. 0..n \subseteq S
    BY <1>1, <1>2, UpTo
  <2> QED
    BY <2>1
<1> QED
  BY <1>3 DEF S

\* The variable of the loop in ValidateManualSplit and in BulkMark.
LEMMA RunningSumIs ==
  ASSUME NEW numbers \in Seq(Int), NEW s, s = RunningSum(numbers)
  PROVE  /\ s \in [0..Len(numbers) -> Int64] /\ s[0] = 0
         /\ \A i \in 1..Len(numbers) : s[i - 1] \in Int64 /\ s[i] = Wrap(s[i - 1] + numbers[i])
<1> DEFINE n == Len(numbers)
           step == [a \in Int \X (1..n) |-> Wrap(a[1] + numbers[a[2]])]
           sums(f) == f = [i \in 0..n |-> IF i = 0 THEN 0 ELSE Wrap(f[i - 1] + numbers[i])]
<1>1. n \in Nat /\ \A i \in 1..n : numbers[i] \in Int
  OBVIOUS
<1>2. \A x \in Int : \A i \in 1..n : step[<<x, i>>] = Wrap(x + numbers[i])
  OBVIOUS
<1> HIDE DEF n, step
<1>3. PICK f \in [0..n -> Int] : f[0] = 0 /\ \A i \in 1..n : f[i] = step[<<f[i - 1], i>>]
  <2>1. ASSUME NEW x \in Int, NEW i \in 1..n PROVE step[<<x, i>>] \in Int
    <3>1. x + numbers[i] \in Int
      BY <1>1
    <3>2. Wrap(x + numbers[i]) \in Int
      <4>1. \A k \in Int64 : k \in Int
        BY MoneyAssumption DEF Int64
      <4> QED
        BY <3>1, <4>1, WrapIn
    <3> QED
      BY <1>2, <3>2
  <2>2. n \in Nat /\ LoopBody(n, step)
    BY <1>1, <2>1 DEF LoopBody
  <2> QED
    BY <2>2, LoopsRun
<1>4. sums(f)
  <2>1. \A i \in 0..n : i # 0 => i \in 1..n /\ i - 1 \in 0..n
    BY <1>1
  <2>2. \A i \in 0..n : f[i] = IF i = 0 THEN 0 ELSE Wrap(f[i - 1] + numbers[i])
    BY <1>2, <1>3, <2>1
  <2> QED
    BY <2>2
<1>5. s = CHOOSE g : sums(g)
  BY DEF RunningSum, n
<1>6. sums(s)
  BY <1>4, <1>5
<1>7. \A i \in 0..n : s[i] = IF i = 0 THEN 0 ELSE Wrap(s[i - 1] + numbers[i])
  BY <1>6
<1>8. DOMAIN s = 0..n
  BY <1>6
<1> HIDE DEF sums
<1>9. 0..n \subseteq {i \in 0..n : s[i] \in Int64}
  <2>1. 0 \in {i \in 0..n : s[i] \in Int64}
    BY <1>1, <1>7, MoneyAssumption DEF Int64
  <2>2. ASSUME NEW i \in 1..n, s[i - 1] \in Int64 PROVE i \in 0..n /\ s[i] \in Int64
    <3>1. i \in 0..n /\ i # 0 /\ s[i - 1] + numbers[i] \in Int
      BY <1>1, <2>2, MoneyAssumption DEF Int64
    <3> QED
      BY <1>7, <3>1, WrapIn DEF Int64
  <2> QED
    BY <1>1, <2>1, <2>2, UpTo
<1>10. s \in [0..n -> Int64]
  <2>1. s = [i \in 0..n |-> s[i]]
    BY <1>6 DEF sums
  <2> QED
    BY <1>9, <2>1
<1>11. s[0] = 0
  BY <1>1, <1>7
<1>12. \A i \in 1..n : s[i - 1] \in Int64 /\ s[i] = Wrap(s[i - 1] + numbers[i])
  <2> TAKE i \in 1..n
  <2>1. i \in 0..n /\ i - 1 \in 0..n /\ i # 0
    BY <1>1
  <2> QED
    BY <1>7, <1>9, <2>1
<1> QED
  BY <1>10, <1>11, <1>12 DEF n

\* e[i] is the sum of the first i numbers, as arithmetic has it.
ExactSums(numbers, e) ==
    /\ e \in [0..Len(numbers) -> Nat] /\ e[0] = 0
    /\ \A i \in 1..Len(numbers) : e[i] = e[i - 1] + numbers[i]

LEMMA ExactSumsExist ==
  ASSUME NEW numbers \in Seq(Nat)
  PROVE  \E e : ExactSums(numbers, e)
<1> DEFINE n == Len(numbers)
           step == [a \in Int \X (1..n) |-> a[1] + numbers[a[2]]]
<1>1. n \in Nat /\ \A i \in 1..n : numbers[i] \in Nat
  OBVIOUS
<1>2. \A x \in Int : \A i \in 1..n : step[<<x, i>>] = x + numbers[i]
  OBVIOUS
<1> HIDE DEF n, step
<1>3. PICK f \in [0..n -> Int] : f[0] = 0 /\ \A i \in 1..n : f[i] = step[<<f[i - 1], i>>]
  <2>1. ASSUME NEW x \in Int, NEW i \in 1..n PROVE step[<<x, i>>] \in Int
    <3>1. x + numbers[i] \in Int
      BY <1>1
    <3> QED
      BY <1>2, <3>1
  <2>2. n \in Nat /\ LoopBody(n, step)
    BY <1>1, <2>1 DEF LoopBody
  <2> QED
    BY <2>2, LoopsRun
<1>4. \A i \in 1..n : i \in 0..n /\ i - 1 \in 0..n
  BY <1>1
<1>5. \A i \in 1..n : f[i] = f[i - 1] + numbers[i]
  BY <1>2, <1>3, <1>4
<1>6. 0..n \subseteq {i \in 0..n : f[i] \in Nat}
  <2>1. 0 \in {i \in 0..n : f[i] \in Nat}
    BY <1>1, <1>3
  <2>2. ASSUME NEW i \in 1..n, i - 1 \in {j \in 0..n : f[j] \in Nat}
        PROVE  i \in {j \in 0..n : f[j] \in Nat}
    <3>1. f[i - 1] \in Nat /\ numbers[i] \in Nat /\ i \in 0..n
      BY <1>1, <1>4, <2>2
    <3>2. PICK a \in Nat, b \in Nat : f[i] = a + b
      BY <1>5, <3>1
    <3> QED
      BY <3>1, <3>2
  <2> QED
    BY <1>1, <2>1, <2>2, UpTo
<1>7. f \in [0..n -> Nat]
  BY <1>6
<1> QED
  BY <1>3, <1>5, <1>7 DEF ExactSums, n

\* A sequence that never falls is not below an earlier value.
LEMMA RisesOnly ==
  ASSUME NEW n \in Nat, NEW e \in [0..n -> Nat], \A i \in 1..n : e[i - 1] <= e[i],
         NEW i \in 0..n, NEW j \in i..n
  PROVE  e[i] <= e[j]
<1> DEFINE Lower == {k \in i..n : e[k] < e[i]}
<1>1. \A k \in i..n : k \in 0..n /\ e[k] \in Nat
  OBVIOUS
<1>2. Lower \in SUBSET Nat
  OBVIOUS
<1>3. Lower = {}
  <2> SUFFICES ASSUME Lower # {} PROVE FALSE
    OBVIOUS
  <2>1. PICK k \in Lower : \A l \in Lower : k <= l
    BY <1>2, LeastNumber
  <2>2. k # i /\ k \in 1..n /\ k - 1 \in i..n /\ k - 1 \in 0..n
    BY <1>1
  <2>3. k - 1 \notin Lower
    BY <1>2, <2>1, <2>2
  <2>4. e[k - 1] >= e[i] /\ e[k - 1] <= e[k]
    BY <1>1, <2>2, <2>3
  <2> QED
    BY <1>1, <2>1, <2>2, <2>4
<1>4. e[j] \in Nat /\ e[i] \in Nat /\ ~(e[j] < e[i])
  BY <1>1, <1>3
<1> QED
  BY <1>4

\* Arithmetic of the slices into which the sums cut a range.
LEMMA InSlice ==
  ASSUME NEW a \in Nat, NEW b \in Nat, NEW c \in Nat, NEW k \in Nat \ {0},
         k <= b, a + b <= c
  PROVE  a + k \in (a + 1)..(a + b) /\ a + k \in 1..c
  OBVIOUS

LEMMA SlicesApart ==
  ASSUME NEW a \in Nat, NEW b \in Nat, NEW c \in Nat, NEW d \in Nat,
         NEW x \in (a + 1)..b, x \in (c + 1)..d
  PROVE  ~(b <= c)
  OBVIOUS

LEMMA OffsetInSlice ==
  ASSUME NEW a \in Nat, NEW b \in Nat, NEW m \in Nat, NEW k \in Nat,
         a < k, k <= a + b, b <= m
  PROVE  k - a \in 1..m /\ k - a <= b /\ a + (k - a) = k
  OBVIOUS

LEMMA CountUpTo ==
  ASSUME NEW m \in Nat
  PROVE  IsFiniteSet(1..m) /\ Cardinality(1..m) = m
<1>1. (IF 1 > m THEN 0 ELSE m - 1 + 1) = m
  OBVIOUS
<1> QED
  BY <1>1, FS_Interval

\* Numbers counted unit by unit add up to their exact sum.
LEMMA UnitsAddUp ==
  ASSUME NEW n \in Nat, NEW amount, DOMAIN amount = 1..n,
         \A i \in 1..n : amount[i] \in 0..MaxInt,
         NEW e \in [0..n -> Nat], e[0] = 0,
         \A i \in 1..n : e[i] = e[i - 1] + amount[i]
  PROVE  SumOf(amount) = e[n]
<1> DEFINE U == {u \in (DOMAIN amount) \X (1..MaxInt) : u[2] <= amount[u[1]]}
           range == 1..e[n]
           place == [u \in U |-> e[u[1] - 1] + u[2]]
<1>1. /\ 0 \in 0..n /\ n \in 0..n
      /\ \A i \in 1..n : i \in 0..n /\ i - 1 \in 0..n /\ n \in i..n
  OBVIOUS
<1>2. /\ e[n] \in Nat
      /\ \A i \in 1..n : e[i] \in Nat /\ e[i - 1] \in Nat /\ amount[i] \in Nat /\ amount[i] <= MaxInt
  BY <1>1, MoneyAssumption
<1>3. \A i \in 1..n : e[i - 1] <= e[i]
  BY <1>2
<1>4. \A i \in 0..n : \A j \in i..n : e[i] <= e[j]
  BY <1>3, RisesOnly
<1>5. \A i \in 1..n : e[i] <= e[n]
  BY <1>1, <1>4
<1>6. \A i, j \in 1..n : i < j => e[i] <= e[j - 1]
  <2>1. \A i, j \in 1..n : i < j => i \in 0..n /\ j - 1 \in i..n
    OBVIOUS
  <2> QED
    BY <1>4, <2>1
<1>7. \A u \in U : /\ u[1] \in 1..n /\ u[2] \in Nat \ {0} /\ u = <<u[1], u[2]>>
                   /\ u[2] <= amount[u[1]]
  BY MoneyAssumption
<1>8. ASSUME NEW u \in U, NEW i \in 1..n, i = u[1]
      PROVE  /\ place[u] = e[i - 1] + u[2]
             /\ place[u] \in (e[i - 1] + 1)..e[i] /\ place[u] \in range
  <2>1. place[u] = e[i - 1] + u[2] /\ u[2] \in Nat \ {0} /\ u[2] <= amount[i]
    BY <1>7, <1>8
  <2>2. /\ e[i - 1] \in Nat /\ amount[i] \in Nat /\ e[n] \in Nat /\ u[2] \in Nat \ {0}
        /\ u[2] <= amount[i] /\ e[i - 1] + amount[i] = e[i] /\ e[i - 1] + amount[i] <= e[n]
    BY <1>2, <1>5, <2>1
  <2>3. e[i - 1] + u[2] \in (e[i - 1] + 1)..e[i] /\ e[i - 1] + u[2] \in 1..e[n]
    BY <2>2, InSlice
  <2> HIDE DEF place
  <2> QED
    BY <2>1, <2>3
<1>9. ASSUME NEW u \in U, NEW v \in U, place[u] = place[v] PROVE u = v
  <2>1. PICK i \in 1..n : i = u[1]
    BY <1>7
  <2>2. PICK j \in 1..n : j = v[1]
    BY <1>7
  <2>3. /\ place[u] \in (e[i - 1] + 1)..e[i] /\ place[u] = e[i - 1] + u[2]
        /\ place[v] \in (e[j - 1] + 1)..e[j] /\ place[v] = e[j - 1] + v[2]
    BY <1>8, <2>1, <2>2
  <2>4. /\ e[i - 1] \in Nat /\ e[i] \in Nat /\ e[j - 1] \in Nat /\ e[j] \in Nat
        /\ i < j => e[i] <= e[j - 1]
        /\ j < i => e[j] <= e[i - 1]
    BY <1>2, <1>6
  <2> HIDE DEF place
  <2>5. ~(e[i] <= e[j - 1]) /\ ~(e[j] <= e[i - 1])
    BY <1>9, <2>3, <2>4, SlicesApart
  <2>6. i = j
    BY <2>4, <2>5
  <2>7. u[2] = v[2]
    <3>1. PICK a \in Nat, k \in Nat, l \in Nat : a = e[i - 1] /\ k = u[2] /\ l = v[2]
      BY <1>7, <2>4
    <3>2. a + k = a + l
      BY <1>9, <2>3, <2>6, <3>1
    <3> QED
      BY <3>1, <3>2
  <2> QED
    BY <1>7, <2>1, <2>2, <2>6, <2>7
<1>10. ASSUME NEW k \in range PROVE \E u \in U : place[u] = k
  <2> DEFINE Above == {i \in 0..n : k <= e[i]}
  <2>1. k \in Nat /\ 0 < k /\ k <= e[n]
    BY <1>2
  <2>2. n \in Above /\ Above \in SUBSET Nat
    BY <1>1, <2>1
  <2>3. PICK i \in Above : \A j \in Above : i <= j
    BY <2>2, LeastNumber
  <2>4. i # 0
    BY <2>1
  <2>5. i \in 1..n
    BY <2>4
  <2>6. i - 1 \in 0..n /\ i - 1 \notin Above
    BY <2>3, <2>5
  <2>7. PICK a \in Nat, b \in Nat, m \in Nat :
          a = e[i - 1] /\ b = amount[i] /\ m = MaxInt /\ e[i] = a + b /\ b <= m
    BY <1>2, <2>5, MoneyAssumption
  <2>8. a < k /\ k <= a + b
    BY <2>1, <2>3, <2>6, <2>7
  <2>9. k - a \in 1..m /\ k - a <= b /\ a + (k - a) = k
    <3>1. a \in Nat /\ b \in Nat /\ m \in Nat /\ k \in Nat /\ a < k /\ k <= a + b /\ b <= m
      BY <2>1, <2>7, <2>8
    <3> HIDE DEF range
    <3> QED
      BY ONLY <3>1, OffsetInSlice
  <2>10. <<i, k - a>> \in U
    BY <2>5, <2>7, <2>9
  <2>11. place[<<i, k - a>>] = e[i - 1] + (k - a)
    BY <2>10
  <2> QED
    BY <2>7, <2>9, <2>10, <2>11
<1>11. place \in Bijection(U, range)
  <2>1. place \in [U -> range]
    BY <1>7, <1>8
  <2> HIDE DEF place, range, U
  <2> QED
    BY <1>9, <1>10, <2>1 DEF Bijection, Injection, Surjection, IsInjective
<1>12. Cardinality(range) = e[n] /\ IsFiniteSet(range)
  BY <1>2, CountUpTo
<1>13. ExistsBijection(range, U)
  <2>1. ExistsBijection(U, range)
    BY <1>11 DEF ExistsBijection
  <2> QED
    BY <2>1, Fun_ExistsBijSymmetric
<1>14. Cardinality(U) = Cardinality(range)
  BY <1>12, <1>13, FS_Bijection
<1> QED
  BY <1>12, <1>14 DEF SumOf

-------------------------------------------------------------------------------
(* What the functions of Money compute. *)

LEMMA Positive ==
  ASSUME NEW numbers \in Seq(Int64), \A i \in DOMAIN numbers : numbers[i] > 0
  PROVE  /\ numbers \in Seq(Nat) /\ numbers \in Seq(Int)
         /\ Len(numbers) \in Nat /\ DOMAIN numbers = 1..Len(numbers)
         /\ \A i \in 1..Len(numbers) :
              numbers[i] \in 0..MaxInt /\ numbers[i] \in Nat /\ numbers[i] > 0
<1>1. Len(numbers) \in Nat /\ DOMAIN numbers = 1..Len(numbers)
  OBVIOUS
<1>2. \A k \in Int64 : k \in Int /\ (k > 0 => k \in Nat /\ k \in 0..MaxInt)
  BY MoneyAssumption DEF Int64
<1>3. \A i \in 1..Len(numbers) : numbers[i] \in Int64
  OBVIOUS
<1>4. \A i \in 1..Len(numbers) :
        numbers[i] \in 0..MaxInt /\ numbers[i] \in Nat /\ numbers[i] \in Int /\ numbers[i] > 0
  BY <1>1, <1>2, <1>3
<1>5. numbers \in [1..Len(numbers) -> Nat] /\ numbers \in [1..Len(numbers) -> Int]
  BY <1>1, <1>4
<1> QED
  BY <1>1, <1>4, <1>5

\* Positive amounts counted unit by unit.
LEMMA ListAddsUp ==
  ASSUME NEW numbers \in Seq(Int64), \A i \in DOMAIN numbers : numbers[i] > 0,
         NEW e, ExactSums(numbers, e)
  PROVE  SumOf(numbers) = e[Len(numbers)]
<1> DEFINE n == Len(numbers)
<1>1. /\ n \in Nat /\ DOMAIN numbers = 1..n
      /\ \A i \in 1..n : numbers[i] \in 0..MaxInt
  BY Positive
<1>2. e \in [0..n -> Nat] /\ e[0] = 0 /\ \A i \in 1..n : e[i] = e[i - 1] + numbers[i]
  BY DEF ExactSums
<1> HIDE DEF n
<1>3. SumOf(numbers) = e[n]
  BY <1>1, <1>2, UnitsAddUp
<1> QED
  BY <1>3 DEF n

\* A loop that does not overflow computes the exact sum.
LEMMA NoOverflow ==
  ASSUME NEW numbers \in Seq(Int64), \A i \in DOMAIN numbers : numbers[i] > 0,
         NEW e, ExactSums(numbers, e), NEW s, s = RunningSum(numbers),
         \A i \in 1..Len(numbers) : s[i - 1] = e[i - 1] => e[i] <= MaxInt
  PROVE  \A i \in 0..Len(numbers) : s[i] = e[i]
<1> DEFINE n == Len(numbers)
<1>1. /\ n \in Nat /\ numbers \in Seq(Int)
      /\ \A i \in 1..n : numbers[i] \in Nat
  BY Positive
<1>2. /\ s[0] = 0
      /\ \A i \in 1..n : s[i] = Wrap(s[i - 1] + numbers[i])
  BY <1>1, RunningSumIs
<1>3. e \in [0..n -> Nat] /\ e[0] = 0 /\ \A i \in 1..n : e[i] = e[i - 1] + numbers[i]
  BY DEF ExactSums
<1>4. \A i \in 1..n : s[i - 1] = e[i - 1] => e[i] <= MaxInt
  OBVIOUS
<1> HIDE DEF n
<1>5. 0 \in {i \in 0..n : s[i] = e[i]}
  BY <1>1, <1>2, <1>3
<1>6. ASSUME NEW i \in 1..n, i - 1 \in {j \in 0..n : s[j] = e[j]}
      PROVE  i \in {j \in 0..n : s[j] = e[j]}
  <2>1. i \in 0..n /\ s[i - 1] = e[i - 1]
    BY <1>6
  <2>2. s[i] = Wrap(e[i])
    BY <1>2, <1>3, <2>1
  <2>3. e[i] \in Nat /\ e[i] <= MaxInt
    BY <1>3, <1>4, <2>1
  <2>4. e[i] \in Int64
    BY <2>3, MoneyAssumption DEF Int64
  <2> QED
    BY <2>1, <2>2, <2>4, WrapFits
<1>7. 0..n \subseteq {i \in 0..n : s[i] = e[i]}
  BY <1>1, <1>5, <1>6, UpTo
<1>8. \A i \in 0..n : s[i] = e[i]
  BY <1>7
<1> QED
  BY <1>8 DEF n

\* The exact sums of positive numbers rise.
LEMMA SumsRise ==
  ASSUME NEW numbers \in Seq(Int64), \A i \in DOMAIN numbers : numbers[i] > 0,
         NEW e, ExactSums(numbers, e)
  PROVE  \A i \in 1..Len(numbers) : /\ e[i] \in Nat /\ e[i] > 0
                                    /\ e[i] <= e[Len(numbers)]
<1> DEFINE n == Len(numbers)
<1>1. n \in Nat /\ \A i \in 1..n : numbers[i] \in Nat /\ numbers[i] > 0
  BY Positive
<1>2. e \in [0..n -> Nat] /\ \A i \in 1..n : e[i] = e[i - 1] + numbers[i]
  BY DEF ExactSums
<1> HIDE DEF n
<1>3. \A i \in 1..n : i \in 0..n /\ i - 1 \in 0..n /\ n \in i..n
  BY <1>1
<1>4. \A i \in 1..n : e[i] \in Nat /\ e[i] > 0 /\ e[i - 1] <= e[i]
  <2> TAKE i \in 1..n
  <2>1. PICK a \in Nat, b \in Nat : a = e[i - 1] /\ b = numbers[i] /\ b > 0
    BY <1>1, <1>2, <1>3
  <2>2. e[i] = a + b
    BY <1>2, <2>1
  <2> QED
    BY <2>1, <2>2
<1>5. \A i \in 1..n : e[i] <= e[n]
  BY <1>1, <1>2, <1>3, <1>4, RisesOnly
<1> QED
  BY <1>4, <1>5 DEF n

LEMMA ManualSplits ==
  ASSUME NEW total \in Int64, NEW shares \in Seq(Int64)
  PROVE  ValidateManualSplit(total, shares) = "nil" <=>
           /\ shares # <<>>
           /\ \A i \in DOMAIN shares : shares[i] > 0
           /\ SumOf(shares) = total
<1> DEFINE n == Len(shares)
           positive == \A i \in DOMAIN shares : shares[i] > 0
<1>1. PICK s : s = RunningSum(shares)
  OBVIOUS
<1>2. total \in Int /\ total <= MaxInt /\ MaxInt \in Nat
  BY MoneyAssumption DEF Int64
<1>3. n \in Nat /\ DOMAIN shares = 1..n /\ (shares # <<>> => n > 0)
  OBVIOUS
<1>4. \A i \in 1..n : shares[i] \in Int
  <2>1. \A k \in Int64 : k \in Int
    BY MoneyAssumption DEF Int64
  <2> QED
    BY <1>3, <2>1
<1>5. ValidateManualSplit(total, shares) = "nil" <=>
        /\ total > 0 /\ shares # <<>>
        /\ \A i \in 1..n : ~(shares[i] <= 0) /\ ~(s[i - 1] > MaxInt - shares[i])
        /\ s[n] = total
  <2> DEFINE refused == \E i \in DOMAIN shares : shares[i] <= 0 \/ s[i - 1] > MaxInt - shares[i]
  <2>1. ~refused <=> \A i \in 1..n : ~(shares[i] <= 0) /\ ~(s[i - 1] > MaxInt - shares[i])
    BY <1>3
  <2>2. ValidateManualSplit(total, shares)
          = IF total <= 0 \/ shares = <<>> THEN "ErrInvalidSplit"
            ELSE IF refused THEN "ErrInvalidSplit"
            ELSE IF s[n] # total THEN "ErrSplitMismatch"
            ELSE "nil"
    BY <1>1 DEF ValidateManualSplit
  <2>3. ~(total <= 0) <=> total > 0
    BY <1>2
  <2> HIDE DEF refused, n
  <2>4. ValidateManualSplit(total, shares) = "nil" <=>
          total > 0 /\ shares # <<>> /\ ~refused /\ s[n] = total
    BY <2>2, <2>3
  <2> QED
    BY <2>1, <2>4
<1>6. ASSUME positive PROVE \E e : ExactSums(shares, e)
  BY <1>6, Positive, ExactSumsExist
<1>7. ASSUME ValidateManualSplit(total, shares) = "nil"
      PROVE  shares # <<>> /\ positive /\ SumOf(shares) = total
  <2>1. /\ shares # <<>>
        /\ \A i \in 1..n : ~(shares[i] <= 0) /\ ~(s[i - 1] > MaxInt - shares[i])
        /\ s[n] = total
    BY <1>5, <1>7
  <2>2. positive
    BY <1>3, <1>4, <2>1
  <2>3. PICK e : ExactSums(shares, e)
    BY <1>6, <2>2
  <2>4. e \in [0..n -> Nat] /\ \A i \in 1..n : e[i] = e[i - 1] + shares[i]
    BY <2>3 DEF ExactSums
  <2>5. ASSUME NEW i \in 1..n, s[i - 1] = e[i - 1] PROVE e[i] <= MaxInt
    <3>1. i - 1 \in 0..n
      OBVIOUS
    <3>2. PICK a \in Nat, b \in Int : a = e[i - 1] /\ b = shares[i]
      BY <1>4, <2>4, <3>1
    <3>3. e[i] = a + b /\ ~(a > MaxInt - b)
      BY <2>1, <2>4, <2>5, <3>2
    <3> QED
      BY <1>2, <3>2, <3>3
  <2>6. \A i \in 0..n : s[i] = e[i]
    BY <1>1, <2>2, <2>3, <2>5, NoOverflow
  <2>7. SumOf(shares) = e[n]
    BY <2>2, <2>3, ListAddsUp
  <2>8. n \in 0..n
    BY <1>3
  <2> QED
    BY <2>1, <2>2, <2>6, <2>7, <2>8
<1>8. ASSUME shares # <<>>, positive, SumOf(shares) = total
      PROVE  ValidateManualSplit(total, shares) = "nil"
  <2>1. PICK e : ExactSums(shares, e)
    BY <1>6, <1>8
  <2>2. e \in [0..n -> Nat] /\ \A i \in 1..n : e[i] = e[i - 1] + shares[i]
    BY <2>1 DEF ExactSums
  <2>3. e[n] = total
    BY <1>8, <2>1, ListAddsUp
  <2>4. \A i \in 1..n : e[i] \in Nat /\ e[i] > 0 /\ e[i] <= e[n]
    BY <1>8, <2>1, SumsRise
  <2>5. \A i \in 1..n : e[i] <= MaxInt
    BY <1>2, <2>3, <2>4
  <2>6. \A i \in 0..n : s[i] = e[i]
    BY <1>1, <1>8, <2>1, <2>5, NoOverflow
  <2>7. ASSUME NEW i \in 1..n PROVE ~(shares[i] <= 0) /\ ~(s[i - 1] > MaxInt - shares[i])
    <3>1. i - 1 \in 0..n
      OBVIOUS
    <3>2. PICK a \in Nat, b \in Int : a = e[i - 1] /\ b = shares[i] /\ b > 0
      BY <1>3, <1>4, <1>8, <2>2, <3>1
    <3>3. a + b <= MaxInt /\ s[i - 1] = a
      BY <2>2, <2>5, <2>6, <3>1, <3>2
    <3> QED
      BY <1>2, <3>2, <3>3
  <2>8. n \in 1..n /\ n \in 0..n
    BY <1>3, <1>8
  <2>9. total > 0 /\ s[n] = total
    BY <2>3, <2>4, <2>6, <2>8
  <2> QED
    BY <1>5, <1>8, <2>7, <2>9
<1> QED
  BY <1>7, <1>8

LEMMA ShiftedUp ==
  ASSUME NEW m \in Nat, NEW a \in Int, NEW b \in Nat, NEW c \in Nat, -(m + 1) <= a, a <= c
  PROVE  a + b \in Int /\ -(m + 1) <= a + b /\ a + b <= c + b
  OBVIOUS

\* Overflow only makes the sum of BulkMark smaller, and without one it is exact.
LEMMA BulkTotals ==
  ASSUME NEW amount \in Int64, NEW remaining \in Seq(Int64),
         \A i \in DOMAIN remaining : remaining[i] > 0
  PROVE  /\ BulkAdmits(amount, remaining) => amount <= SumOf(remaining)
         /\ ~BulkAdmits(amount, remaining) => amount > SumOf(remaining) \/ SumOf(remaining) > MaxInt
<1> DEFINE n == Len(remaining)
<1>1. /\ n \in Nat /\ remaining \in Seq(Nat) /\ remaining \in Seq(Int)
      /\ \A i \in 1..n : remaining[i] \in Nat
  BY Positive
<1>2. PICK e : ExactSums(remaining, e)
  BY <1>1, ExactSumsExist
<1>3. e \in [0..n -> Nat] /\ e[0] = 0 /\ \A i \in 1..n : e[i] = e[i - 1] + remaining[i]
  BY <1>2 DEF ExactSums
<1>4. SumOf(remaining) = e[n]
  BY <1>2, ListAddsUp
<1>5. PICK s : s = RunningSum(remaining)
  OBVIOUS
<1>6. /\ s \in [0..n -> Int64] /\ s[0] = 0
      /\ \A i \in 1..n : s[i - 1] \in Int64 /\ s[i] = Wrap(s[i - 1] + remaining[i])
  BY <1>1, <1>5, RunningSumIs
<1>7. BulkAdmits(amount, remaining) <=> amount <= s[n]
  BY <1>5 DEF BulkAdmits
<1>8. MaxInt \in Nat /\ amount \in Int /\ \A k \in Int64 : k \in Int /\ -(MaxInt + 1) <= k
  BY MoneyAssumption DEF Int64
\* Without an overflow the loop's sum is exact.
<1>13. ASSUME e[n] <= MaxInt PROVE s[n] = e[n]
  <2>1. \A i \in 1..n : e[i] \in Nat /\ e[i] <= e[n]
    BY <1>2, SumsRise
  <2>2. PICK total \in Nat : total = e[n] /\ total <= MaxInt
    BY <1>1, <1>3, <1>13
  <2>3. \A i \in 1..n : e[i] <= MaxInt
    BY <1>8, <2>1, <2>2
  <2>4. \A i \in 0..n : s[i] = e[i]
    BY <1>2, <1>5, <2>3, NoOverflow
  <2> QED
    BY <1>1, <2>4
<1> HIDE DEF n
<1>9. 0..n \subseteq {i \in 0..n : s[i] <= e[i]}
  <2>1. 0 \in {i \in 0..n : s[i] <= e[i]}
    BY <1>1, <1>3, <1>6
  <2>2. ASSUME NEW i \in 1..n, i - 1 \in {j \in 0..n : s[j] <= e[j]}
        PROVE  i \in {j \in 0..n : s[j] <= e[j]}
    <3>1. i \in 0..n /\ i - 1 \in 0..n /\ s[i - 1] <= e[i - 1] /\ s[i - 1] \in Int64
      BY <1>6, <2>2
    <3>2. PICK a \in Int, b \in Nat, c \in Nat :
            /\ a = s[i - 1] /\ b = remaining[i] /\ c = e[i - 1]
            /\ -(MaxInt + 1) <= a /\ a <= c
      BY <1>1, <1>3, <1>8, <3>1
    <3>3. a + b \in Int /\ -(MaxInt + 1) <= a + b /\ a + b <= c + b
      <4>1. MaxInt \in Nat /\ a \in Int /\ b \in Nat /\ c \in Nat
        BY <1>8
      <4>2. -(MaxInt + 1) <= a /\ a <= c
        BY <3>2
      <4> QED
        BY ONLY <4>1, <4>2, ShiftedUp
    <3>4. Wrap(a + b) <= a + b
      BY <3>3, WrapFalls
    <3>5. Wrap(a + b) \in Int
      BY <1>8, <3>3, WrapIn
    <3>6. s[i] = Wrap(a + b) /\ e[i] = c + b
      BY <1>3, <1>6, <3>2
    <3> QED
      BY <3>1, <3>2, <3>3, <3>4, <3>5, <3>6
  <2> QED
    BY <1>1, <2>1, <2>2, UpTo
<1>10. s[n] <= e[n] /\ s[n] \in Int64 /\ e[n] \in Nat
  BY <1>1, <1>3, <1>6, <1>9
<1>11. PICK a \in Int, b \in Int, c \in Nat : a = amount /\ b = s[n] /\ c = e[n]
  BY <1>8, <1>10
<1>12. b <= c /\ (c <= MaxInt => b = c)
  BY <1>10, <1>11, <1>13
<1>14. /\ a <= b => a <= c
       /\ ~(a <= b) => a > c \/ c > MaxInt
  BY <1>8, <1>12
<1>15. /\ BulkAdmits(amount, remaining) <=> a <= b
       /\ SumOf(remaining) = c /\ amount = a
  BY <1>4, <1>7, <1>11
<1> QED
  BY <1>14, <1>15

\* Division with a remainder.
LEMMA DivisionIs ==
  ASSUME NEW t \in Nat, NEW n \in Nat \ {0}
  PROVE  /\ t \div n \in Nat /\ t % n \in 0..(n - 1) /\ t = n * (t \div n) + (t % n)
         /\ t \div n = 0 => t < n
<1>1. /\ t \div n \in Nat /\ t % n \in 0..(n - 1) /\ t = n * (t \div n) + (t % n)
  OBVIOUS
<1>2. PICK b \in Nat, r \in 0..(n - 1) : b = t \div n /\ r = t % n /\ t = n * b + r
  BY <1>1
<1>3. ASSUME b = 0 PROVE t < n
  BY <1>2, <1>3
<1> QED
  BY <1>1, <1>2, <1>3

LEMMA OneMore ==
  ASSUME NEW i \in Nat, NEW b \in Nat
  PROVE  (i + 1) * b = i * b + b /\ i * b \in Nat
  OBVIOUS

LEMMA EqualSplits ==
  ASSUME NEW total \in Int64, NEW n \in Int64, NEW answer, answer = SplitEqual(total, n)
  PROVE  IF answer.err = "nil"
         THEN /\ n > 0 /\ total > 0
              /\ answer.value \in [1..n -> 1..MaxInt]
              /\ SumOf(answer.value) = total
              /\ \A i, j \in 1..n : answer.value[i] <= answer.value[j] + 1
         ELSE total < n \/ total <= 0 \/ n <= 0
<1>1. total \in Int /\ n \in Int /\ MaxInt \in Nat /\ total <= MaxInt
  BY MoneyAssumption DEF Int64
<1>2. CASE total <= 0 \/ n <= 0
  BY <1>2 DEF SplitEqual, Fails
<1>3. CASE ~(total <= 0 \/ n <= 0)
  <2>1. total \in Nat /\ n \in Nat \ {0} /\ total > 0 /\ n > 0
    BY <1>1, <1>3
  <2>2. PICK base \in Nat, rest \in 0..(n - 1) :
          /\ base = total \div n /\ rest = total % n /\ total = n * base + rest
          /\ base = 0 => total < n
    BY <2>1, DivisionIs
  <2> DEFINE share == [i \in 1..n |-> IF i - 1 >= n - rest THEN base + 1 ELSE base]
  <2>3. answer = IF base = 0 THEN Fails("ErrInvalidSplit") ELSE Returns(share)
    BY <1>3, <2>2 DEF SplitEqual
  <2>4. CASE base = 0
    BY <2>2, <2>3, <2>4 DEF Fails
  <2>5. CASE base # 0
    <3>1. answer.err = "nil" /\ answer.value = share
      BY <2>3, <2>5 DEF Returns
    <3>2. base <= n * base
      <4>1. PICK k \in Nat : n = k + 1
        BY <2>1
      <4>2. n * base = k * base + base /\ k * base \in Nat
        BY <4>1, OneMore
      <4> QED
        BY <4>2
    <3>3. n * base \in Nat /\ base + rest <= total
      BY <2>1, <2>2, <3>2
    <3>4. base \in 1..MaxInt /\ (rest # 0 => base + 1 \in 1..MaxInt)
      BY <1>1, <2>1, <2>2, <2>5, <3>3
    <3>5. \A i \in 1..n : /\ share[i] = IF i - 1 >= n - rest THEN base + 1 ELSE base
                          /\ i - 1 >= n - rest => rest # 0
      BY <2>1
    <3>6. share \in [1..n -> 1..MaxInt]
      BY <3>4, <3>5
    <3>7. \A i, j \in 1..n : share[i] <= share[j] + 1
      BY <3>5
    <3> DEFINE e == [i \in 0..n |-> i * base + (IF i > n - rest THEN i - (n - rest) ELSE 0)]
    <3>8. \A i \in 0..n : i * base \in Nat
      BY OneMore
    <3>9. e \in [0..n -> Nat] /\ e[0] = 0
      <4>1. \A i \in 0..n : (IF i > n - rest THEN i - (n - rest) ELSE 0) \in Nat
        BY <2>1
      <4>2. \A x, y \in Nat : x + y \in Nat
        OBVIOUS
      <4>3. 0 * base = 0 /\ ~(0 > n - rest) /\ 0 \in 0..n
        BY <2>1
      <4> QED
        BY <3>8, <4>1, <4>2, <4>3
    <3>10. ASSUME NEW i \in 1..n PROVE e[i] = e[i - 1] + share[i]
      <4>1. PICK k \in 0..n : k = i - 1 /\ i = k + 1
        BY <2>1
      <4>2. PICK p \in Nat : p = k * base /\ i * base = p + base
        BY <4>1, OneMore
      <4>3. /\ e[i] = i * base + (IF i > n - rest THEN i - (n - rest) ELSE 0)
            /\ e[i - 1] = k * base + (IF k > n - rest THEN k - (n - rest) ELSE 0)
        BY <4>1
      <4> HIDE DEF e, share
      <4>4. share[i] = IF k >= n - rest THEN base + 1 ELSE base
        BY <3>5, <4>1
      <4>5. /\ e[i] = p + base + (IF k >= n - rest THEN k + 1 - (n - rest) ELSE 0)
            /\ e[i - 1] = p + (IF k >= n - rest THEN k - (n - rest) ELSE 0)
        BY <2>1, <4>1, <4>2, <4>3
      <4> QED
        BY <2>1, <4>4, <4>5
    <3>11. e[n] = total
      <4>1. n \in 0..n /\ e[n] = n * base + (IF n > n - rest THEN n - (n - rest) ELSE 0)
        BY <2>1
      <4>2. (IF n > n - rest THEN n - (n - rest) ELSE 0) = rest
        BY <2>1
      <4> QED
        BY <2>2, <4>1, <4>2
    <3>12. \A i \in 1..n : share[i] \in 0..MaxInt
      BY <3>4, <3>5
    <3>13. DOMAIN share = 1..n
      OBVIOUS
    <3> HIDE DEF e, share
    <3>14. SumOf(share) = total
      BY <2>1, <3>9, <3>10, <3>11, <3>12, <3>13, UnitsAddUp
    <3> QED
      BY <2>1, <3>1, <3>6, <3>7, <3>14
  <2> QED
    BY <2>4, <2>5
<1> QED
  BY <1>2, <1>3

-------------------------------------------------------------------------------
(* Texts. *)

LEMMA CentsAre ==
  ASSUME NEW fraction \in Seq(0..9), Len(fraction) <= 2
  PROVE  Cents(fraction) \in 0..99
<1>1. PICK n \in 0..2 : n = Len(fraction)
  <2>1. Len(fraction) \in Nat
    OBVIOUS
  <2>2. \A k \in Nat : k <= 2 => k \in 0..2
    OBVIOUS
  <2>3. Len(fraction) \in 0..2
    BY <2>1, <2>2
  <2> QED
    BY <2>3
<1>2. \A i \in 1..n : fraction[i] \in 0..9
  BY <1>1
<1>3. n = 0 <=> fraction = <<>>
  BY <1>1
<1>4. CASE n = 0
  <2>1. Cents(fraction) = 0
    BY <1>3, <1>4 DEF Cents
  <2> QED
    BY <2>1
<1>5. CASE n = 1
  <2>1. Cents(fraction) = 10 * fraction[1]
    BY <1>1, <1>3, <1>5 DEF Cents
  <2>2. PICK d \in 0..9 : d = fraction[1]
    BY <1>2, <1>5
  <2>3. 10 * d \in 0..99
    OBVIOUS
  <2> QED
    BY <2>1, <2>2, <2>3
<1>6. CASE n = 2
  <2>1. Cents(fraction) = 10 * fraction[1] + fraction[2]
    BY <1>1, <1>3, <1>6 DEF Cents
  <2>2. PICK d \in 0..9, c \in 0..9 : d = fraction[1] /\ c = fraction[2]
    BY <1>2, <1>6
  <2>3. 10 * d + c \in 0..99
    OBVIOUS
  <2> QED
    BY <2>1, <2>2, <2>3
<1> QED
  BY <1>4, <1>5, <1>6

\* The bound that ParseMinor tests, for a nonnegative difference and for a negative one.
LEMMA Bound ==
  ASSUME NEW m \in Nat, NEW c \in Int, NEW major \in Nat
  PROVE  major > (m - c) \div 100 <=> major * 100 + c > m
  OBVIOUS

LEMMA ParsedTexts ==
  ASSUME NEW major \in Nat, NEW fraction \in Seq(0..9),
         NEW exact, exact = major * MinorUnitsPerMajor + Cents(fraction)
  PROVE  ParseMinor(major, fraction)
           = IF Len(fraction) <= 2 /\ exact <= MaxInt
             THEN Returns(exact) ELSE Fails("ErrInvalidAmount")
<1>1. Len(fraction) \in Nat /\ MaxInt \in Nat
  BY MoneyAssumption
<1>2. CASE Len(fraction) > 2
  BY <1>1, <1>2 DEF ParseMinor
<1>3. CASE ~(Len(fraction) > 2)
  <2>1. PICK cents \in 0..99 : cents = Cents(fraction)
    <3>1. Len(fraction) <= 2
      BY <1>1, <1>3
    <3> QED
      BY <3>1, CentsAre
  <2>2. exact = major * 100 + cents /\ exact \in Nat
    <3>1. exact = major * 100 + cents
      BY <2>1 DEF MinorUnitsPerMajor
    <3>2. major * 100 + cents \in Nat
      OBVIOUS
    <3> QED
      BY <3>1, <3>2
  <2>3. major > (MaxInt - cents) \div 100 <=> exact > MaxInt
    BY <1>1, <2>2, Bound
  <2>4. major > MaxInt => exact > MaxInt
    BY <1>1, <2>2
  <2>5. CASE exact > MaxInt
    BY <1>1, <2>1, <2>2, <2>3, <2>5 DEF ParseMinor, MinorUnitsPerMajor
  <2>6. CASE ~(exact > MaxInt)
    <3>1. exact <= MaxInt /\ exact \in Int64
      BY <1>1, <2>2, <2>6 DEF Int64
    <3>2. Wrap(exact) = exact
      BY <3>1, WrapFits
    <3>3. ParseMinor(major, fraction) = Returns(Wrap(major * 100 + cents))
      BY <1>3, <2>1, <2>3, <2>4, <2>6 DEF ParseMinor, MinorUnitsPerMajor
    <3> QED
      BY <1>1, <1>3, <2>2, <3>1, <3>2, <3>3
  <2> QED
    BY <2>5, <2>6
<1> QED
  BY <1>2, <1>3

LEMMA Digits ==
  ASSUME NEW a \in Nat
  PROVE  /\ a \div 100 \in Nat /\ (a % 100) \div 10 \in 0..9 /\ (a % 100) % 10 \in 0..9
         /\ (a \div 100) * 100 + (10 * ((a % 100) \div 10) + ((a % 100) % 10)) = a
  OBVIOUS

LEMMA FormattedTexts ==
  ASSUME NEW amount \in Int64, amount >= 0, NEW text, text = FormatMinor(amount)
  PROVE  ParseMinor(text.major, text.fraction) = Returns(amount)
<1>1. amount \in Nat /\ amount <= MaxInt
  BY MoneyAssumption DEF Int64
<1>2. PICK major \in Nat, tens \in 0..9, ones \in 0..9 :
        /\ major = amount \div 100 /\ tens = (amount % 100) \div 10 /\ ones = (amount % 100) % 10
        /\ major * 100 + (10 * tens + ones) = amount
  BY <1>1, Digits
<1>3. text.major = major /\ text.fraction = <<tens, ones>>
  BY <1>2 DEF FormatMinor, MinorUnitsPerMajor
<1>4. <<tens, ones>> \in Seq(0..9) /\ Len(<<tens, ones>>) = 2
  OBVIOUS
<1>5. Cents(<<tens, ones>>) = 10 * tens + ones
  BY DEF Cents
<1>6. amount = major * MinorUnitsPerMajor + Cents(<<tens, ones>>)
  BY <1>2, <1>5 DEF MinorUnitsPerMajor
<1>7. ParseMinor(major, <<tens, ones>>) = Returns(amount)
  <2>1. PICK fraction : fraction = <<tens, ones>>
    OBVIOUS
  <2>2. fraction \in Seq(0..9) /\ Len(fraction) = 2
    BY <1>4, <2>1
  <2>3. amount = major * MinorUnitsPerMajor + Cents(fraction)
    BY <1>6, <2>1
  <2>4. Len(fraction) <= 2
    BY <2>2
  <2>5. ParseMinor(major, fraction) = IF Len(fraction) <= 2 /\ amount <= MaxInt
                                     THEN Returns(amount) ELSE Fails("ErrInvalidAmount")
    BY <2>2, <2>3, ParsedTexts
  <2> QED
    BY <1>1, <2>1, <2>4, <2>5
<1> QED
  BY <1>3, <1>7

-------------------------------------------------------------------------------
(* The calls. *)

\* The arguments a call may have, its result and what they have to do with each other.
ParseCalls ==
    {[op |-> "parse", major |-> major, fraction |-> fraction,
      result |-> ParseMinor(major, fraction)] : major \in Majors, fraction \in Fractions}
FormatCalls ==
    {[op |-> "format", amount |-> amount, result |-> FormatMinor(amount)] :
        amount \in {amount \in Totals : amount >= 0}}
EqualCalls ==
    {[op |-> "equal", total |-> total, participants |-> n, result |-> SplitEqual(total, n)] :
        total \in Totals, n \in Counts}
ManualCalls ==
    {[op |-> "manual", total |-> total, shares |-> shares,
      result |-> ValidateManualSplit(total, shares)] : total \in Totals, shares \in ShareLists}
BulkCalls ==
    {[op |-> "bulk", amount |-> amount, remaining |-> remaining,
      result |-> BulkAdmits(amount, remaining)] :
        amount \in Totals,
        remaining \in {list \in ShareLists : \A i \in DOMAIN list : list[i] > 0}}

CallTypeOK ==
    call \in {NoCall} \cup ParseCalls \cup FormatCalls \cup EqualCalls \cup ManualCalls \cup BulkCalls

LEMMA ArgumentsOK ==
  /\ Majors \subseteq Nat /\ Fractions \subseteq Seq(0..9)
  /\ Totals \subseteq Int64 /\ Counts \subseteq Int64 /\ ShareLists \subseteq Seq(Int64)
  BY MoneyCallsAssumption

\* Every call is recorded with its arguments and its result.
LEMMA CallsAreTyped == CallsSpec => []CallTypeOK
<1>1. CallsInit => CallTypeOK
  BY DEF CallsInit, CallTypeOK
<1>2. ASSUME CallTypeOK, [CallsNext]_call PROVE CallTypeOK'
  <2>1. CASE CallParse
    BY <2>1 DEF CallParse, CallTypeOK, ParseCalls
  <2>2. CASE CallFormat
    BY <2>2 DEF CallFormat, CallTypeOK, FormatCalls
  <2>3. CASE CallSplitEqual
    BY <2>3 DEF CallSplitEqual, CallTypeOK, EqualCalls
  <2>4. CASE CallManualSplit
    BY <2>4 DEF CallManualSplit, CallTypeOK, ManualCalls
  <2>5. CASE CallBulkTotal
    BY <2>5 DEF CallBulkTotal, CallTypeOK, BulkCalls
  <2>6. CASE call' = NoCall \/ call' = call
    BY <1>2, <2>6 DEF CallTypeOK
  <2> QED
    BY <1>2, <2>1, <2>2, <2>3, <2>4, <2>5, <2>6 DEF CallsNext, Call
<1> QED
  BY <1>1, <1>2, PTL DEF CallsSpec

\* Only calls of an operation have its name.
LEMMA CallsByName ==
  ASSUME CallTypeOK
  PROVE  /\ call.op = "parse" => call \in ParseCalls
         /\ call.op = "format" => call \in FormatCalls
         /\ call.op = "equal" => call \in EqualCalls
         /\ call.op = "manual" => call \in ManualCalls
         /\ call.op = "bulk" => call \in BulkCalls
  BY DEF CallTypeOK, NoCall, ParseCalls, FormatCalls, EqualCalls, ManualCalls, BulkCalls

\* For every text and every amount: no parsed amount has wrapped around, no text that
\* fits is refused, and what FormatMinor writes ParseMinor reads back.
THEOREM TextsParseExactly == CallsSpec => []TextsAreExact
<1>1. ASSUME CallTypeOK PROVE TextsAreExact
  <2>1. ASSUME call.op = "parse"
        PROVE  LET exact == call.major * MinorUnitsPerMajor + Cents(call.fraction)
               IN  call.result = IF Len(call.fraction) <= 2 /\ exact <= MaxInt
                                 THEN Returns(exact) ELSE Fails("ErrInvalidAmount")
    <3>1. PICK major \in Majors, fraction \in Fractions :
            call = [op |-> "parse", major |-> major, fraction |-> fraction,
                    result |-> ParseMinor(major, fraction)]
      BY <1>1, <2>1, CallsByName DEF ParseCalls
    <3>2. major \in Nat /\ fraction \in Seq(0..9)
      BY ArgumentsOK
    <3>3. call.major = major /\ call.fraction = fraction /\ call.result = ParseMinor(major, fraction)
      BY <3>1
    <3> QED
      BY <3>2, <3>3, ParsedTexts
  <2>2. ASSUME call.op = "format"
        PROVE  ParseMinor(call.result.major, call.result.fraction) = Returns(call.amount)
    <3>1. PICK amount \in Totals :
            /\ amount >= 0
            /\ call = [op |-> "format", amount |-> amount, result |-> FormatMinor(amount)]
      BY <1>1, <2>2, CallsByName DEF FormatCalls
    <3>2. amount \in Int64
      BY ArgumentsOK
    <3>3. call.amount = amount /\ call.result = FormatMinor(amount)
      BY <3>1
    <3> QED
      BY <3>1, <3>2, <3>3, FormattedTexts
  <2> QED
    BY <2>1, <2>2 DEF TextsAreExact
<1> QED
  BY <1>1, CallsAreTyped, PTL

\* For every total and every list of shares: an equal split adds up to its total and is
\* as even as it can be; a manual one is accepted exactly when its true sum is its total.
THEOREM SplitsAddUp == CallsSpec => []SplitsAreExact
<1>1. ASSUME CallTypeOK PROVE SplitsAreExact
  <2>1. ASSUME call.op = "equal"
        PROVE  IF call.result.err # "nil"
               THEN call.total < call.participants \/ call.total <= 0 \/ call.participants <= 0
               ELSE /\ DOMAIN call.result.value = 1..call.participants
                    /\ SumOf(call.result.value) = call.total
                    /\ \A i, j \in DOMAIN call.result.value :
                         /\ call.result.value[i] >= 1
                         /\ call.result.value[i] <= call.result.value[j] + 1
    <3>1. PICK total \in Totals, n \in Counts :
            call = [op |-> "equal", total |-> total, participants |-> n,
                    result |-> SplitEqual(total, n)]
      BY <1>1, <2>1, CallsByName DEF EqualCalls
    <3>2. total \in Int64 /\ n \in Int64
      BY ArgumentsOK
    <3>3. PICK answer : answer = SplitEqual(total, n)
      OBVIOUS
    <3>4. call.total = total /\ call.participants = n /\ call.result = answer
      BY <3>1, <3>3
    <3>5. CASE answer.err # "nil"
      <4>1. total < n \/ total <= 0 \/ n <= 0
        BY <3>2, <3>3, <3>5, EqualSplits
      <4> QED
        BY <3>4, <3>5, <4>1
    <3>6. CASE answer.err = "nil"
      <4>1. /\ answer.value \in [1..n -> 1..MaxInt]
            /\ SumOf(answer.value) = total
            /\ \A i, j \in 1..n : answer.value[i] <= answer.value[j] + 1
        BY <3>2, <3>3, <3>6, EqualSplits
      <4>2. DOMAIN answer.value = 1..n /\ \A i \in 1..n : answer.value[i] >= 1
        <5>1. PICK f : f = answer.value
          OBVIOUS
        <5>2. f \in [1..n -> 1..MaxInt]
          BY <4>1, <5>1
        <5>3. \A k \in 1..MaxInt : k >= 1
          BY MoneyAssumption
        <5>4. \A i \in 1..n : f[i] \in 1..MaxInt
          BY <5>2
        <5> QED
          BY <5>1, <5>2, <5>3, <5>4
      <4> QED
        BY <3>4, <3>6, <4>1, <4>2
    <3> QED
      BY <3>5, <3>6
  <2>2. ASSUME call.op = "manual"
        PROVE  call.result = "nil" <=>
                 /\ call.shares # <<>>
                 /\ \A i \in DOMAIN call.shares : call.shares[i] > 0
                 /\ SumOf(call.shares) = call.total
    <3>1. PICK total \in Totals, shares \in ShareLists :
            call = [op |-> "manual", total |-> total, shares |-> shares,
                    result |-> ValidateManualSplit(total, shares)]
      BY <1>1, <2>2, CallsByName DEF ManualCalls
    <3>2. total \in Int64 /\ shares \in Seq(Int64)
      BY ArgumentsOK
    <3>3. /\ call.total = total /\ call.shares = shares
          /\ call.result = ValidateManualSplit(total, shares)
      BY <3>1
    <3> QED
      BY <3>2, <3>3, ManualSplits
  <2> QED
    BY <2>1, <2>2 DEF SplitsAreExact
<1> QED
  BY <1>1, CallsAreTyped, PTL

\* However long the list of debts is: BulkMark admits no amount that they cannot take, and
\* refuses one that they can only when the sum of them overflows.
THEOREM BulkTotalsAreExact == CallsSpec => []OnlyOverflowRefuses
<1>1. ASSUME CallTypeOK PROVE OnlyOverflowRefuses
  <2> SUFFICES ASSUME call.op = "bulk"
               PROVE  /\ call.result => call.amount <= SumOf(call.remaining)
                      /\ ~call.result => \/ call.amount > SumOf(call.remaining)
                                         \/ SumOf(call.remaining) > MaxInt
    BY DEF OnlyOverflowRefuses
  <2>1. PICK amount \in Totals, remaining \in ShareLists :
          /\ \A i \in DOMAIN remaining : remaining[i] > 0
          /\ call = [op |-> "bulk", amount |-> amount, remaining |-> remaining,
                     result |-> BulkAdmits(amount, remaining)]
    BY <1>1, CallsByName DEF BulkCalls
  <2>2. amount \in Int64 /\ remaining \in Seq(Int64)
    BY ArgumentsOK
  <2>3. PICK admitted : admitted = BulkAdmits(amount, remaining)
    OBVIOUS
  <2>4. call.amount = amount /\ call.remaining = remaining /\ call.result = admitted
    BY <2>1, <2>3
  <2>5. /\ admitted => amount <= SumOf(remaining)
        /\ ~admitted => amount > SumOf(remaining) \/ SumOf(remaining) > MaxInt
    BY <2>1, <2>2, <2>3, BulkTotals, Zenon
  <2> QED
    BY <2>4, <2>5, Zenon
<1> QED
  BY <1>1, CallsAreTyped, PTL

\* The bodies that pass the checks of the service, their totals and shares.
ValidInputs == {input \in Inputs : ValidInput(input)}
InputTotals == {input.total : input \in ValidInputs}
AllShares == UNION {{Shares(input)[i] : i \in DOMAIN input.participants} : input \in ValidInputs}

SomeIds == ExpenseIds \cup {0}

ExpenseRow == [group : Groups, total : InputTotals, paidBy : Users, createdBy : Users]
ParticipantRow == [expense : SomeIds, user : Users, share : AllShares]
DebtRow == [expense : SomeIds, debtor : Users, creditor : Users,
            amount : AllShares \cup Adjustments, status : {"pending", "rejected"}]
Notice == [expense : SomeIds, to : Users]

Adding == [kind : {"addMember"}, group : Groups, user : Users]
Creating ==
    [kind : {"create"}, stage : {"payer", "participants", "rows"}, input : ValidInputs,
     unchecked : SUBSET Ids, expense : SomeIds, done : Nat,
     participants : SUBSET ParticipantRow, debts : SUBSET DebtRow]
Telling == [kind : {"announce"}, todo : SUBSET Notice]
Getting ==
    [kind : {"get"}, stage : {"participants", "debts", "done"}, expense : SomeIds, user : Users,
     row : ExpenseRow, participants : SUBSET ParticipantRow, debts : SUBSET DebtRow]

Request == {Idle} \cup Adding \cup Creating \cup Telling \cup Getting

\* A group has members only once it is created.
GroupsOK ==
    /\ member = [g \in Groups |-> member[g]]
    /\ \A g \in Groups : g \notin DOMAIN createdBy => DOMAIN member[g] = {}

RowsOK ==
    /\ expense \in [DOMAIN expense -> ExpenseRow] /\ DOMAIN expense \subseteq ExpenseIds
    /\ participant \subseteq ParticipantRow
    /\ debt \subseteq DebtRow

TypeOK == GroupsOK /\ RowsOK /\ request \in [Requests -> Request]

\* A transaction that writes rows does so under an id of its own.
Writing(r) == request[r].kind = "create" /\ request[r].stage = "rows"

Reserved ==
    \A r \in Requests : Writing(r) =>
      /\ request[r].expense \in ExpenseIds \ DOMAIN expense
      /\ \A s \in Requests \ {r} : Writing(s) => request[s].expense # request[r].expense

\* What a request has checked stays so, for members stay.  The rows of a transaction
\* are of members, under its id.
Checked(r) ==
    /\ request[r].kind = "addMember" => DOMAIN member[request[r].group] # {}
    /\ request[r].kind = "create" =>
         LET req == request[r]
             input == req.input
             members == DOMAIN member[input.group]
         IN  /\ input.createdBy \in members
             /\ req.stage # "payer" =>
                  /\ UserOf[input.paidBy] \in members
                  /\ \A i \in DOMAIN input.participants :
                       \/ input.participants[i] \in req.unchecked
                       \/ UserOf[input.participants[i]] \in members
             /\ req.stage = "rows" => req.unchecked = {}
             /\ req.stage # "rows" => req.participants = {} /\ req.debts = {}
             /\ \A row \in req.participants : row.expense = req.expense /\ row.user \in members
             /\ \A row \in req.debts : row.expense = req.expense

AllChecked == \A r \in Requests : Checked(r)

\* Committed rows are those of committed expenses.
RowsBelong == \A row \in participant \cup debt : row.expense \in DOMAIN expense

\* No debtor is to be told by two requests.
DuesApart == \A r, s \in Requests : r # s => Due(r) \cap Due(s) = {}

IInv ==
    /\ TypeOK /\ Reserved /\ AllChecked /\ RowsBelong
    /\ OnlyMembersShare
    /\ DebtorsAreTold /\ DuesApart

-------------------------------------------------------------------------------
(* Requests. *)

LEMMA Kinds ==
  ASSUME TypeOK, NEW r \in Requests
  PROVE  /\ request[r] \in Request
         /\ request[r].kind = "create" => request[r] \in Creating
         /\ request[r].kind = "announce" => request[r] \in Telling
         /\ request[r].kind = "get" => request[r] \in Getting
         /\ request[r].kind = "addMember" => request[r] \in Adding
         /\ request[r].kind = "idle" => request[r] = Idle
  BY DEF TypeOK, Request, Idle, Creating, Telling, Getting, Adding

LEMMA Becomes ==
  ASSUME TypeOK, NEW r \in Requests, NEW req \in Request,
         request' = [request EXCEPT ![r] = req]
  PROVE  /\ request' \in [Requests -> Request] /\ request'[r] = req
         /\ \A q \in Requests \ {r} : request'[q] = request[q]
  BY DEF TypeOK

LEMMA DuesAreNotices ==
  ASSUME TypeOK, NEW r \in Requests
  PROVE  Due(r) \subseteq Notice
<1>1. CASE request[r].kind = "announce"
  <2>1. request[r] \in Telling
    BY <1>1, Kinds
  <2> QED
    BY <1>1, <2>1 DEF Due, Telling
<1>2. CASE request[r].kind # "announce"
  BY <1>2 DEF Due
<1> QED
  BY <1>1, <1>2

MembersStay == \A g \in Groups : DOMAIN member[g] \subseteq DOMAIN member'[g]

LEMMA InputsOK ==
  ASSUME NEW input \in Inputs
  PROVE  /\ input.group \in Groups /\ input.createdBy \in Users /\ UserOf[input.paidBy] \in Users
         /\ input.paidBy \in Ids /\ input.participants \in Seq(Ids)
         /\ \A i \in DOMAIN input.participants :
              input.participants[i] \in Ids /\ UserOf[input.participants[i]] \in Users
<1>1. /\ UserOf \in [Ids -> Users] /\ input.group \in Groups /\ input.createdBy \in Users
      /\ input.paidBy \in Ids /\ input.participants \in Seq(Ids)
  BY ExpensesAssumption
<1>2. \A i \in DOMAIN input.participants : input.participants[i] \in Ids
  BY <1>1
<1> QED
  BY <1>1, <1>2

\* What was checked stays so while members stay.
LEMMA CheckedStays ==
  ASSUME TypeOK, NEW r \in Requests, Checked(r), request'[r] = request[r], MembersStay
  PROVE  Checked(r)'
<1>1. CASE request[r].kind \notin {"create", "addMember"}
  BY <1>1 DEF Checked
<1>2. CASE request[r].kind = "create"
  <2>1. request[r] \in Creating
    BY <1>2, Kinds
  <2>2. request[r].input \in Inputs
    BY <2>1 DEF Creating, ValidInputs
  <2>3. request[r].input.group \in Groups
    BY <2>2, InputsOK
  <2>4. DOMAIN member[request[r].input.group] \subseteq DOMAIN member'[request[r].input.group]
    BY <2>3 DEF MembersStay
  <2> QED
    BY <1>2, <2>4 DEF Checked
<1>3. CASE request[r].kind = "addMember"
  <2>1. request[r] \in Adding
    BY <1>3, Kinds
  <2>2. DOMAIN member[request[r].group] \subseteq DOMAIN member'[request[r].group]
    BY <2>1 DEF MembersStay, Adding
  <2> QED
    BY <1>3, <2>2 DEF Checked
<1> QED
  BY <1>1, <1>2, <1>3

-------------------------------------------------------------------------------
(* Quiet steps: those that commit nothing and tell nobody. *)

\* The request r checks, or writes, or reads on its own.
GoesOn(r) ==
    /\ Checked(r)'
    /\ Due(r)' = Due(r)
    /\ Writing(r)' => Writing(r) /\ request'[r].expense = request[r].expense

Quiet ==
    /\ TypeOK' /\ MembersStay
    /\ UNCHANGED <<expense, participant, debt, told, lost>>
    /\ \A r \in Requests : request'[r] = request[r] \/ GoesOn(r)

\* More loosely, a step may also take an id to write under.
Calm ==
    /\ TypeOK' /\ MembersStay
    /\ UNCHANGED <<expense, participant, debt, told, lost>>
    /\ \A r \in Requests : request'[r] = request[r] \/ (Checked(r)' /\ Due(r)' = Due(r))

LEMMA CheckedKept ==
  ASSUME IInv, MembersStay, NEW r \in Requests, request'[r] = request[r]
  PROVE  Checked(r)'
<1>1. TypeOK /\ Checked(r)
  BY DEF IInv, AllChecked
<1> QED
  BY <1>1, CheckedStays

LEMMA CalmKeeps ==
  ASSUME IInv, Calm, Reserved'
  PROVE  IInv'
<1>1. /\ TypeOK /\ TypeOK' /\ MembersStay
      /\ expense' = expense /\ participant' = participant /\ debt' = debt
      /\ told' = told /\ lost' = lost
  BY DEF IInv, Calm
<1>2. ASSUME NEW r \in Requests PROVE Checked(r)' /\ Due(r)' = Due(r)
  <2>1. CASE request'[r] = request[r]
    <3>1. Checked(r)'
      BY <1>1, <2>1, CheckedKept
    <3> QED
      BY <2>1, <3>1 DEF Due
  <2> QED
    BY <2>1 DEF Calm
<1>3. AllChecked'
  BY <1>2 DEF AllChecked
<1>4. RowsBelong'
  BY <1>1 DEF RowsBelong, IInv
<1>5. DebtorsAreTold' /\ DuesApart'
  BY <1>1, <1>2 DEF IInv, DebtorsAreTold, DuesApart
<1>6. OnlyMembersShare'
  <2> SUFFICES ASSUME NEW e \in DOMAIN expense
               PROVE  {expense[e].paidBy, expense[e].createdBy} \cup {row.user : row \in ParticipantsOf(e)}
                        \subseteq DOMAIN member'[expense[e].group]
    BY <1>1 DEF OnlyMembersShare, ParticipantsOf
  <2>1. expense[e].group \in Groups
    BY <1>1 DEF TypeOK, RowsOK, ExpenseRow
  <2>2. {expense[e].paidBy, expense[e].createdBy} \cup {row.user : row \in ParticipantsOf(e)}
          \subseteq DOMAIN member[expense[e].group]
    BY DEF IInv, OnlyMembersShare
  <2> QED
    BY <1>1, <2>1, <2>2 DEF MembersStay
<1> QED
  BY <1>1, <1>3, <1>4, <1>5, <1>6 DEF IInv

LEMMA QuietKeeps ==
  ASSUME IInv, Quiet
  PROVE  IInv'
<1>1. expense' = expense /\ Reserved
  BY DEF Quiet, IInv
<1>2. ASSUME NEW r \in Requests
      PROVE  Writing(r)' => Writing(r) /\ request'[r].expense = request[r].expense
  <2>1. CASE request'[r] = request[r]
    BY <2>1 DEF Writing
  <2>2. CASE GoesOn(r)
    BY <2>2 DEF GoesOn
  <2> QED
    BY <2>1, <2>2 DEF Quiet
<1>3. Reserved'
  BY <1>1, <1>2 DEF Reserved
<1>4. Calm
  BY DEF Quiet, Calm, GoesOn
<1> QED
  BY <1>3, <1>4, CalmKeeps

\* A step of one request.
LEMMA QuietRequest ==
  ASSUME TypeOK, NEW r \in Requests, NEW req \in Request,
         request' = [request EXCEPT ![r] = req],
         GroupsOK', MembersStay, UNCHANGED <<expense, participant, debt, told, lost>>,
         GoesOn(r)
  PROVE  Quiet
<1>1. /\ request' \in [Requests -> Request]
      /\ \A q \in Requests \ {r} : request'[q] = request[q]
  BY Becomes
<1>2. RowsOK'
  BY DEF TypeOK, RowsOK
<1> QED
  BY <1>1, <1>2 DEF Quiet, TypeOK

LEMMA SameGroups ==
  ASSUME TypeOK, UNCHANGED groups
  PROVE  GroupsOK' /\ MembersStay
  BY DEF TypeOK, GroupsOK, MembersStay, groups

\* A request that is not a transaction goes on.
LEMMA OthersGoOn ==
  ASSUME NEW r \in Requests, Due(r)' = Due(r), request'[r].kind \notin {"create", "addMember"}
  PROVE  GoesOn(r)
  BY DEF GoesOn, Checked, Writing

-------------------------------------------------------------------------------
LEMMA GroupsAreQuiet ==
  ASSUME TypeOK, NEW g \in Groups, NEW u \in Users, CreateGroup(g, u)
  PROVE  Quiet
<1>1. /\ g \notin DOMAIN createdBy
      /\ createdBy' = [h \in DOMAIN createdBy \cup {g} |-> IF h = g THEN u ELSE createdBy[h]]
      /\ member' = [member EXCEPT ![g] = [v \in {u} |-> "owner"]]
      /\ UNCHANGED <<expense, participant, debt, told, lost, request>>
  BY DEF CreateGroup, notices, owed
<1>2. DOMAIN createdBy' = DOMAIN createdBy \cup {g} /\ DOMAIN member[g] = {}
  BY <1>1 DEF TypeOK, GroupsOK
<1>3. PICK row : row = [v \in {u} |-> "owner"]
  OBVIOUS
<1>4. /\ member' = [h \in Groups |-> member'[h]]
      /\ \A h \in Groups : member'[h] = IF h = g THEN row ELSE member[h]
  BY <1>1, <1>3 DEF TypeOK, GroupsOK
<1>5. GroupsOK' /\ MembersStay
  BY <1>2, <1>4 DEF TypeOK, GroupsOK, MembersStay
<1>6. RowsOK' /\ request' \in [Requests -> Request]
  BY <1>1 DEF TypeOK, RowsOK
<1> QED
  BY <1>1, <1>5, <1>6 DEF Quiet, TypeOK

LEMMA AddMemberIsQuiet ==
  ASSUME TypeOK, NEW r \in Requests, Checked(r),
         \/ \E g \in Groups, owner, u \in Users : AddMemberBegin(r, g, owner, u)
         \/ AddMemberInsert(r)
  PROVE  Quiet
<1>1. ASSUME NEW g \in Groups, NEW owner \in Users, NEW u \in Users,
             AddMemberBegin(r, g, owner, u)
      PROVE  Quiet
  <2> DEFINE req == [kind |-> "addMember", group |-> g, user |-> u]
  <2>1. /\ request[r] = Idle /\ request' = [request EXCEPT ![r] = req]
        /\ UNCHANGED groups /\ UNCHANGED <<expense, participant, debt, told, lost>>
    BY <1>1 DEF AddMemberBegin, notices, owed
  <2>2. req \in Request /\ req.kind = "addMember"
    BY DEF Request, Adding
  <2> HIDE DEF req
  <2>3. request'[r] = req
    BY <2>1, <2>2, Becomes
  <2>4. DOMAIN member'[g] # {}
    BY <1>1, <2>1 DEF AddMemberBegin, IsGroupOwner, groups
  <2>5. request'[r].kind = "addMember" /\ request'[r].group = g
    BY <2>3 DEF req
  <2>6. GoesOn(r)
    BY <2>1, <2>4, <2>5 DEF Due, Idle, GoesOn, Checked, Writing
  <2> QED
    BY <2>1, <2>2, <2>6, SameGroups, QuietRequest
<1>2. ASSUME AddMemberInsert(r) PROVE Quiet
  <2> DEFINE g == request[r].group
             u == request[r].user
             row == [v \in DOMAIN member[g] \cup {u} |-> IF v = u THEN "member" ELSE member[g][v]]
  <2>1. /\ request[r].kind = "addMember" /\ member' = [member EXCEPT ![g] = row]
        /\ createdBy' = createdBy /\ request' = [request EXCEPT ![r] = Idle]
        /\ UNCHANGED <<expense, participant, debt, told, lost>>
    BY <1>2 DEF AddMemberInsert, notices, owed
  <2>2. g \in Groups
    BY <2>1, Kinds DEF Adding
  <2>3. DOMAIN row = DOMAIN member[g] \cup {u}
    OBVIOUS
  <2> HIDE DEF row
  <2>4. /\ member' = [h \in Groups |-> member'[h]]
        /\ \A h \in Groups : member'[h] = IF h = g THEN row ELSE member[h]
    BY <2>1, <2>2 DEF TypeOK, GroupsOK
  <2>5. g \in DOMAIN createdBy
    BY <2>1, <2>2 DEF TypeOK, GroupsOK, Checked
  <2>6. GroupsOK' /\ MembersStay
    BY <2>1, <2>3, <2>4, <2>5 DEF TypeOK, GroupsOK, MembersStay
  <2>7. Idle \in Request /\ Idle.kind = "idle"
    BY DEF Request, Idle
  <2>8. request'[r] = Idle
    BY <2>1, <2>7, Becomes
  <2>9. GoesOn(r)
    BY <2>1, <2>7, <2>8, OthersGoOn DEF Due
  <2> QED
    BY <2>1, <2>6, <2>7, <2>9, QuietRequest
<1> QED
  BY <1>1, <1>2

LEMMA GetIsQuiet ==
  ASSUME TypeOK, NEW r \in Requests,
         \/ \E e \in ExpenseIds, u \in Users : GetExpense(r, e, u)
         \/ GetParticipants(r) \/ GetDebts(r)
  PROVE  Quiet
<1>1. ASSUME NEW req \in Getting, request' = [request EXCEPT ![r] = req],
             request[r].kind # "announce",
             UNCHANGED groups, UNCHANGED <<expense, participant, debt, told, lost>>
      PROVE  Quiet
  <2>1. req \in Request /\ req.kind = "get"
    BY DEF Request, Getting
  <2>2. request'[r] = req
    BY <1>1, <2>1, Becomes
  <2>3. GoesOn(r)
    BY <1>1, <2>1, <2>2, OthersGoOn DEF Due
  <2> QED
    BY <1>1, <2>1, <2>3, SameGroups, QuietRequest
<1>2. participant \in SUBSET ParticipantRow /\ debt \in SUBSET DebtRow
  BY DEF TypeOK, RowsOK
<1>3. ASSUME NEW e \in ExpenseIds, NEW u \in Users, GetExpense(r, e, u) PROVE Quiet
  <2> DEFINE req == [kind |-> "get", stage |-> "participants", expense |-> e, user |-> u,
                     row |-> expense[e], participants |-> {}, debts |-> {}]
  <2>1. /\ request[r] = Idle /\ e \in DOMAIN expense
        /\ request' = [request EXCEPT ![r] = req]
        /\ UNCHANGED groups /\ UNCHANGED <<expense, participant, debt, told, lost>>
    BY <1>3 DEF GetExpense, notices, owed
  <2>2. expense[e] \in ExpenseRow
    BY <2>1 DEF TypeOK, RowsOK
  <2>3. req \in Getting
    BY <2>2 DEF Getting, SomeIds
  <2> HIDE DEF req
  <2>4. request[r].kind # "announce"
    BY <2>1 DEF Idle
  <2> QED
    BY <1>1, <2>1, <2>3, <2>4
<1>4. CASE GetParticipants(r)
  <2> DEFINE rows == {row \in participant : row.expense = request[r].expense}
             req == [request[r] EXCEPT !.stage = "debts", !.participants = rows]
  <2>1. /\ request[r].kind = "get" /\ request' = [request EXCEPT ![r] = req]
        /\ UNCHANGED groups /\ UNCHANGED <<expense, participant, debt, told, lost>>
    BY <1>4 DEF GetParticipants, notices, owed
  <2>2. request[r] \in Getting /\ rows \in SUBSET ParticipantRow
    BY <1>2, <2>1, Kinds
  <2> HIDE DEF rows
  <2>3. req \in Getting
    BY <2>2 DEF Getting
  <2> HIDE DEF req
  <2> QED
    BY <1>1, <2>1, <2>3
<1>5. CASE GetDebts(r)
  <2> DEFINE rows == {row \in debt : row.expense = request[r].expense}
             req == [request[r] EXCEPT !.stage = "done", !.debts = rows]
  <2>1. /\ request[r].kind = "get" /\ request' = [request EXCEPT ![r] = req]
        /\ UNCHANGED groups /\ UNCHANGED <<expense, participant, debt, told, lost>>
    BY <1>5 DEF GetDebts, notices, owed
  <2>2. request[r] \in Getting /\ rows \in SUBSET DebtRow
    BY <1>2, <2>1, Kinds
  <2> HIDE DEF rows
  <2>3. req \in Getting
    BY <2>2 DEF Getting
  <2> HIDE DEF req
  <2> QED
    BY <1>1, <2>1, <2>3
<1> QED
  BY <1>3, <1>4, <1>5

-------------------------------------------------------------------------------
(* The transaction. *)

\* The steps up to its commit change nothing but the request.
LEMMA Creates ==
  ASSUME TypeOK, NEW r \in Requests, NEW req \in Creating,
         request' = [request EXCEPT ![r] = req],
         request[r].kind # "announce",
         UNCHANGED groups, UNCHANGED <<expense, participant, debt, told, lost>>
  PROVE  /\ TypeOK' /\ MembersStay /\ request'[r] = req /\ req.kind = "create"
         /\ \A q \in Requests \ {r} : request'[q] = request[q]
         /\ Due(r)' = Due(r)
<1>1. req \in Request /\ req.kind = "create"
  BY DEF Request, Creating
<1>2. /\ request'[r] = req /\ request' \in [Requests -> Request]
      /\ \A q \in Requests \ {r} : request'[q] = request[q]
  BY <1>1, Becomes
<1>3. GroupsOK' /\ MembersStay
  BY SameGroups
<1>4. RowsOK'
  BY DEF TypeOK, RowsOK
<1> QED
  BY <1>1, <1>2, <1>3, <1>4 DEF TypeOK, Due

LEMMA CreateBeginIsQuiet ==
  ASSUME TypeOK, NEW r \in Requests, NEW input \in Inputs, CreateBegin(r, input)
  PROVE  Quiet
<1> DEFINE req == [kind |-> "create", stage |-> "payer", input |-> input, unchecked |-> {},
                   expense |-> 0, done |-> 0, participants |-> {}, debts |-> {}]
<1>1. /\ request[r] = Idle /\ ValidInput(input) /\ IsGroupMember(input.group, input.createdBy)
      /\ request' = [request EXCEPT ![r] = req]
      /\ UNCHANGED groups /\ UNCHANGED <<expense, participant, debt, told, lost>>
  BY DEF CreateBegin, notices, owed
<1>2. input \in ValidInputs
  BY <1>1 DEF ValidInputs
<1>3. req \in Creating
  BY <1>2 DEF Creating, SomeIds
<1>4. /\ req.kind = "create" /\ req.stage = "payer" /\ req.input = input
      /\ req.participants = {} /\ req.debts = {}
  OBVIOUS
<1> HIDE DEF req
<1>5. /\ TypeOK' /\ MembersStay /\ request'[r] = req /\ Due(r)' = Due(r)
      /\ \A q \in Requests \ {r} : request'[q] = request[q]
  <2>1. request[r].kind # "announce"
    BY <1>1 DEF Idle
  <2> QED
    BY <1>1, <1>3, <2>1, Creates
<1>6. Checked(r)'
  BY <1>1, <1>4, <1>5 DEF Checked, IsGroupMember, groups
<1>7. GoesOn(r)
  BY <1>4, <1>5, <1>6 DEF GoesOn, Writing
<1> QED
  BY <1>1, <1>5, <1>7 DEF Quiet

LEMMA CheckPayerIsQuiet ==
  ASSUME TypeOK, NEW r \in Requests, Checked(r), CheckPayer(r)
  PROVE  Quiet
<1> DEFINE input == request[r].input
           ids == {input.participants[i] : i \in DOMAIN input.participants}
           req == [request[r] EXCEPT !.stage = "participants", !.unchecked = ids]
<1>1. /\ request[r].kind = "create" /\ request[r].stage = "payer"
      /\ IsGroupMember(input.group, UserOf[input.paidBy])
      /\ request' = [request EXCEPT ![r] = req]
      /\ UNCHANGED groups /\ UNCHANGED <<expense, participant, debt, told, lost>>
  BY DEF CheckPayer, notices, owed
<1>2. request[r] \in Creating
  BY <1>1, Kinds
<1>3. ids \in SUBSET Ids /\ \A i \in DOMAIN input.participants : input.participants[i] \in ids
  BY <1>2, InputsOK DEF Creating, ValidInputs
<1> HIDE DEF ids
<1>4. /\ req \in Creating /\ req.kind = "create" /\ req.stage = "participants"
      /\ req.input = input /\ req.unchecked = ids
      /\ req.participants = request[r].participants /\ req.debts = request[r].debts
  BY <1>2, <1>3 DEF Creating
<1> HIDE DEF req
<1>5. /\ TypeOK' /\ MembersStay /\ request'[r] = req /\ Due(r)' = Due(r)
      /\ \A q \in Requests \ {r} : request'[q] = request[q]
  BY <1>1, <1>4, Creates
<1>6. /\ input.createdBy \in DOMAIN member[input.group]
      /\ request[r].participants = {} /\ request[r].debts = {}
  BY <1>1 DEF Checked
<1>7. Checked(r)'
  BY <1>1, <1>3, <1>4, <1>5, <1>6 DEF Checked, IsGroupMember, groups
<1>8. GoesOn(r)
  BY <1>4, <1>5, <1>7 DEF GoesOn, Writing
<1> QED
  BY <1>1, <1>5, <1>8 DEF Quiet

LEMMA CheckParticipantIsQuiet ==
  ASSUME TypeOK, NEW r \in Requests, Checked(r), CheckParticipant(r)
  PROVE  Quiet
<1>1. PICK id \in request[r].unchecked :
        /\ request[r].kind = "create" /\ request[r].stage = "participants"
        /\ IsGroupMember(request[r].input.group, UserOf[id])
        /\ request' = [request EXCEPT ![r].unchecked = @ \ {id}]
        /\ UNCHANGED groups /\ UNCHANGED <<expense, participant, debt, told, lost>>
  BY DEF CheckParticipant, notices, owed
<1> DEFINE input == request[r].input
           req == [request[r] EXCEPT !.unchecked = @ \ {id}]
<1>2. request[r] \in Creating
  BY <1>1, Kinds
<1>3. /\ req \in Creating /\ req.kind = "create" /\ req.stage = "participants"
      /\ req.input = input /\ req.unchecked = request[r].unchecked \ {id}
      /\ req.participants = request[r].participants /\ req.debts = request[r].debts
  BY <1>1, <1>2 DEF Creating
<1>4. request' = [request EXCEPT ![r] = req]
  BY <1>1
<1> HIDE DEF req
<1>5. /\ TypeOK' /\ MembersStay /\ request'[r] = req /\ Due(r)' = Due(r)
      /\ \A q \in Requests \ {r} : request'[q] = request[q]
  BY <1>1, <1>3, <1>4, Creates
<1>6. /\ input.createdBy \in DOMAIN member[input.group]
      /\ UserOf[input.paidBy] \in DOMAIN member[input.group]
      /\ \A i \in DOMAIN input.participants :
           \/ input.participants[i] \in request[r].unchecked
           \/ UserOf[input.participants[i]] \in DOMAIN member[input.group]
      /\ request[r].participants = {} /\ request[r].debts = {}
  BY <1>1 DEF Checked
<1>7. \A i \in DOMAIN input.participants :
        \/ input.participants[i] \in req.unchecked
        \/ UserOf[input.participants[i]] \in DOMAIN member[input.group]
  BY <1>1, <1>3, <1>6 DEF IsGroupMember
<1>8. Checked(r)'
  BY <1>1, <1>3, <1>5, <1>6, <1>7 DEF Checked, groups
<1>9. GoesOn(r)
  BY <1>3, <1>5, <1>8 DEF GoesOn, Writing
<1> QED
  BY <1>1, <1>5, <1>9 DEF Quiet

LEMMA InsertExpenseKeeps ==
  ASSUME IInv, NEW r \in Requests, InsertExpense(r)
  PROVE  IInv'
<1>1. PICK e \in ExpenseIds \ DOMAIN expense :
        /\ request[r].kind = "create" /\ request[r].stage = "participants"
        /\ request[r].unchecked = {}
        /\ \A s \in Requests : request[s].kind = "create" => request[s].expense # e
        /\ request' = [request EXCEPT ![r].stage = "rows", ![r].expense = e]
        /\ UNCHANGED groups /\ UNCHANGED <<expense, participant, debt, told, lost>>
  BY DEF InsertExpense, notices, owed
<1> DEFINE input == request[r].input
           req == [request[r] EXCEPT !.stage = "rows", !.expense = e]
<1>2. request[r] \in Creating
  BY <1>1, Kinds DEF IInv
<1>3. /\ req \in Creating /\ req.kind = "create" /\ req.stage = "rows"
      /\ req.input = input /\ req.unchecked = {} /\ req.expense = e
      /\ req.participants = request[r].participants /\ req.debts = request[r].debts
  BY <1>1, <1>2 DEF Creating, SomeIds
<1>4. request' = [request EXCEPT ![r] = req]
  BY <1>1
<1> HIDE DEF req
<1>5. /\ TypeOK' /\ MembersStay /\ request'[r] = req /\ Due(r)' = Due(r)
      /\ \A q \in Requests \ {r} : request'[q] = request[q]
  BY <1>1, <1>3, <1>4, Creates DEF IInv
<1>6. /\ input.createdBy \in DOMAIN member[input.group]
      /\ UserOf[input.paidBy] \in DOMAIN member[input.group]
      /\ \A i \in DOMAIN input.participants :
           UserOf[input.participants[i]] \in DOMAIN member[input.group]
      /\ request[r].participants = {} /\ request[r].debts = {}
  BY <1>1 DEF Checked, IInv, AllChecked
<1>7. Checked(r)'
  BY <1>1, <1>3, <1>5, <1>6 DEF Checked, groups
<1>8. Calm
  BY <1>1, <1>5, <1>7 DEF Calm
<1>9. Reserved'
  <2>1. Reserved
    BY DEF IInv
  <2>2. request'[r].expense = e /\ e \in ExpenseIds \ DOMAIN expense'
    BY <1>1, <1>3, <1>5
  <2>3. \A s \in Requests \ {r} : Writing(s)' => request'[s].expense # e
    BY <1>1, <1>5 DEF Writing
  <2>4. ASSUME NEW s \in Requests \ {r}, Writing(s)'
        PROVE  /\ request'[s].expense \in ExpenseIds \ DOMAIN expense'
               /\ \A q \in Requests \ {s} : Writing(q)' => request'[q].expense # request'[s].expense
    <3>1. Writing(s) /\ request'[s] = request[s] /\ expense' = expense
      BY <1>1, <1>5, <2>4 DEF Writing
    <3>2. /\ request[s].expense \in ExpenseIds \ DOMAIN expense
          /\ \A q \in Requests \ {s} : Writing(q) => request[q].expense # request[s].expense
      BY <2>1, <3>1 DEF Reserved
    <3>3. request[s].expense # e
      BY <1>1, <3>1 DEF Writing
    <3>4. ASSUME NEW q \in Requests \ {s}, Writing(q)'
          PROVE  request'[q].expense # request'[s].expense
      BY <1>5, <2>2, <3>1, <3>2, <3>3, <3>4 DEF Writing
    <3> QED
      BY <3>1, <3>2, <3>4
  <2> QED
    BY <2>2, <2>3, <2>4 DEF Reserved
<1> QED
  BY <1>8, <1>9, CalmKeeps

LEMMA InsertParticipantIsQuiet ==
  ASSUME TypeOK, NEW r \in Requests, Checked(r), InsertParticipant(r)
  PROVE  Quiet
<1> DEFINE input == request[r].input
           i == request[r].done + 1
           id == input.participants[i]
           row == [expense |-> request[r].expense, user |-> UserOf[id], share |-> Shares(input)[i]]
           debts == IF id = input.paidBy THEN {}
                    ELSE {[expense |-> request[r].expense, debtor |-> UserOf[id],
                           creditor |-> UserOf[input.paidBy], amount |-> row.share,
                           status |-> "pending"]}
           req == [request[r] EXCEPT !.done = i, !.participants = @ \cup {row},
                                     !.debts = @ \cup debts]
<1>1. /\ request[r].kind = "create" /\ request[r].stage = "rows"
      /\ i \in DOMAIN input.participants
      /\ request' = [request EXCEPT ![r] = req]
      /\ UNCHANGED groups /\ UNCHANGED <<expense, participant, debt, told, lost>>
  BY DEF InsertParticipant, notices, owed
<1>2. request[r] \in Creating
  BY <1>1, Kinds
<1>3. /\ request[r].expense \in SomeIds /\ i \in Nat /\ input \in ValidInputs /\ input \in Inputs
      /\ Shares(input)[i] \in AllShares
  BY <1>1, <1>2 DEF Creating, ValidInputs, AllShares
<1>4. UserOf[id] \in Users /\ UserOf[input.paidBy] \in Users
  BY <1>1, <1>3, InputsOK
<1>5. row \in ParticipantRow /\ row.expense = request[r].expense /\ row.user = UserOf[id]
  BY <1>3, <1>4 DEF ParticipantRow
<1>6. debts \subseteq DebtRow /\ \A d \in debts : d.expense = request[r].expense
  BY <1>3, <1>4 DEF DebtRow
<1> HIDE DEF row, debts
<1>7. /\ req \in Creating /\ req.kind = "create" /\ req.stage = "rows"
      /\ req.input = input /\ req.unchecked = request[r].unchecked
      /\ req.expense = request[r].expense
      /\ req.participants = request[r].participants \cup {row}
      /\ req.debts = request[r].debts \cup debts
  BY <1>1, <1>2, <1>3, <1>5, <1>6 DEF Creating
<1> HIDE DEF req
<1>8. /\ TypeOK' /\ MembersStay /\ request'[r] = req /\ Due(r)' = Due(r)
      /\ \A q \in Requests \ {r} : request'[q] = request[q]
  BY <1>1, <1>7, Creates
<1>9. /\ input.createdBy \in DOMAIN member[input.group]
      /\ UserOf[input.paidBy] \in DOMAIN member[input.group]
      /\ request[r].unchecked = {}
      /\ \A j \in DOMAIN input.participants :
           UserOf[input.participants[j]] \in DOMAIN member[input.group]
      /\ \A p \in request[r].participants :
           p.expense = request[r].expense /\ p.user \in DOMAIN member[input.group]
      /\ \A d \in request[r].debts : d.expense = request[r].expense
  BY <1>1 DEF Checked
<1>10. /\ \A p \in req.participants :
            p.expense = req.expense /\ p.user \in DOMAIN member[input.group]
       /\ \A d \in req.debts : d.expense = req.expense
  BY <1>1, <1>5, <1>6, <1>7, <1>9
<1>11. member' = member
  BY <1>1 DEF groups
<1>12. Checked(r)'
  BY <1>7, <1>8, <1>9, <1>10, <1>11 DEF Checked
<1>13. GoesOn(r)
  BY <1>1, <1>7, <1>8, <1>12 DEF GoesOn, Writing
<1> QED
  BY <1>1, <1>8, <1>13 DEF Quiet

-------------------------------------------------------------------------------
(* What is announced. *)

LEMMA AnnouncingIs ==
  ASSUME NEW todo \in SUBSET Notice
  PROVE  /\ Announcing(todo) \in Request
         /\ Announcing(todo).kind \notin {"create", "addMember"}
         /\ (IF Announcing(todo).kind = "announce" THEN Announcing(todo).todo ELSE {}) = todo
<1>1. CASE todo = {}
  BY <1>1 DEF Announcing, Request, Idle
<1>2. CASE todo # {}
  <2>1. Announcing(todo) = [kind |-> "announce", todo |-> todo]
    BY <1>2 DEF Announcing
  <2> QED
    BY <2>1 DEF Request, Telling
<1> QED
  BY <1>1, <1>2

\* A request tells debtors, or will never tell them: its own ones.
LEMMA TellingKeeps ==
  ASSUME IInv, NEW r \in Requests, NEW done \in SUBSET Due(r),
         request' = [request EXCEPT ![r] = Announcing(Due(r) \ done)],
         UNCHANGED groups, UNCHANGED <<expense, participant, debt>>,
         \/ told' = told \cup done /\ lost' = lost
         \/ told' = told /\ lost' = lost \cup done
  PROVE  IInv'
<1>1. TypeOK
  BY DEF IInv
<1>2. PICK todo : todo = Due(r) \ done
  OBVIOUS
<1>3. todo \in SUBSET Notice
  BY <1>1, <1>2, DuesAreNotices
<1>4. PICK req : req = Announcing(todo)
  OBVIOUS
<1>5. /\ req \in Request /\ req.kind \notin {"create", "addMember"}
      /\ (IF req.kind = "announce" THEN req.todo ELSE {}) = todo
  BY <1>3, <1>4, AnnouncingIs
<1>6. /\ request' \in [Requests -> Request] /\ request'[r] = req
      /\ \A q \in Requests \ {r} : request'[q] = request[q]
  BY <1>1, <1>2, <1>4, <1>5, Becomes
<1>7. MembersStay /\ TypeOK'
  BY <1>1, <1>6, SameGroups DEF TypeOK, RowsOK
<1>8. AllChecked'
  <2>1. Checked(r)'
    BY <1>5, <1>6 DEF Checked
  <2> QED
    BY <1>6, <1>7, <2>1, CheckedKept DEF AllChecked
<1>9. Reserved'
  <2>1. \A q \in Requests :
          Writing(q)' => q # r /\ Writing(q) /\ request'[q].expense = request[q].expense
    BY <1>5, <1>6 DEF Writing
  <2>2. Reserved
    BY DEF IInv
  <2> QED
    BY <2>1, <2>2 DEF Reserved
<1>10. Due(r)' = Due(r) \ done /\ \A q \in Requests \ {r} : Due(q)' = Due(q)
  BY <1>2, <1>5, <1>6 DEF Due
<1>11. DuesApart'
  <2>1. DuesApart /\ \A q \in Requests : Due(q)' \subseteq Due(q)
    BY <1>10 DEF IInv
  <2> QED
    BY <2>1 DEF DuesApart
<1>12. DebtorsAreTold'
  <2> DEFINE all == UNION {Due(q) : q \in Requests}
  <2>1. /\ DebtNotices(debt) = told \cup lost \cup all
        /\ told \cap lost = {}
        /\ \A q \in Requests : Due(q) \cap (told \cup lost) = {}
    BY DEF IInv, DebtorsAreTold
  <2>2. \A q \in Requests \ {r} : Due(q) \cap done = {}
    BY DEF IInv, DuesApart
  <2>3. told' \cup lost' = told \cup lost \cup done
    OBVIOUS
  <2>4. UNION {Due(q)' : q \in Requests} = all \ done
    BY <1>10, <2>2
  <2>5. DebtNotices(debt') = told' \cup lost' \cup UNION {Due(q)' : q \in Requests}
    <3>1. done \subseteq all
      OBVIOUS
    <3>2. DebtNotices(debt') = DebtNotices(debt)
      OBVIOUS
    <3> HIDE DEF all
    <3> QED
      BY <2>1, <2>3, <2>4, <3>1, <3>2
  <2>6. told' \cap lost' = {}
    <3>1. done \cap (told \cup lost) = {}
      BY <2>1
    <3> QED
      BY <2>1, <3>1
  <2>7. \A q \in Requests : Due(q)' \cap (told' \cup lost') = {}
    BY <1>10, <2>1, <2>2, <2>3
  <2> QED
    BY <2>5, <2>6, <2>7 DEF DebtorsAreTold
<1>13. RowsBelong' /\ OnlyMembersShare'
  BY DEF IInv, RowsBelong, OnlyMembersShare, ParticipantsOf, groups
<1> QED
  BY <1>7, <1>8, <1>9, <1>11, <1>12, <1>13 DEF IInv

LEMMA TellingSteps ==
  ASSUME IInv, NEW r \in Requests, Announce(r) \/ AnnounceFails(r) \/ Abandon(r)
  PROVE  IInv'
<1>1. CASE Announce(r)
  <2>1. PICK notice \in Due(r) :
          /\ told' = told \cup {notice}
          /\ request' = [request EXCEPT ![r] = Announcing(Due(r) \ {notice})]
          /\ UNCHANGED <<groups, expense, participant, debt, lost>>
    BY <1>1 DEF Announce, owed
  <2>2. PICK done \in SUBSET Due(r) : done = {notice}
    OBVIOUS
  <2> QED
    BY <2>1, <2>2, TellingKeeps
<1>2. CASE AnnounceFails(r)
  <2>1. PICK notice \in Due(r) :
          /\ lost' = lost \cup {notice}
          /\ request' = [request EXCEPT ![r] = Announcing(Due(r) \ {notice})]
          /\ UNCHANGED <<groups, expense, participant, debt, told>>
    BY <1>2 DEF AnnounceFails, owed
  <2>2. PICK done \in SUBSET Due(r) : done = {notice}
    OBVIOUS
  <2> QED
    BY <2>1, <2>2, TellingKeeps
<1>3. CASE Abandon(r)
  <2>1. Announcing(Due(r) \ Due(r)) = Idle
    BY DEF Announcing
  <2>2. /\ request' = [request EXCEPT ![r] = Announcing(Due(r) \ Due(r))]
        /\ lost' = lost \cup Due(r)
        /\ UNCHANGED <<groups, expense, participant, debt, told>>
    BY <1>3, <2>1 DEF Abandon, owed
  <2> QED
    BY <2>2, TellingKeeps
<1> QED
  BY <1>1, <1>2, <1>3

-------------------------------------------------------------------------------
(* The commit. *)

\* What a commit does: a new expense e, and only rows of it.
Commits(r, e, row, participants, debts) ==
    /\ Writing(r) /\ e = request[r].expense /\ e \in ExpenseIds \ DOMAIN expense
    /\ row \in ExpenseRow
    /\ {row.paidBy, row.createdBy} \subseteq DOMAIN member[row.group]
    /\ participants \subseteq ParticipantRow /\ debts \subseteq DebtRow
    /\ \A p \in participants : p.expense = e /\ p.user \in DOMAIN member[row.group]
    /\ \A d \in debts : d.expense = e
    /\ expense' = [f \in DOMAIN expense \cup {e} |-> IF f = e THEN row ELSE expense[f]]
    /\ participant' = participant \cup participants
    /\ debt' = debt \cup debts
    /\ request' = [request EXCEPT ![r] = Announcing(DebtNotices(debts))]
    /\ UNCHANGED groups /\ UNCHANGED <<told, lost>>

LEMMA CommitCommits ==
  ASSUME IInv, NEW r \in Requests, CommitExpense(r)
  PROVE  Commits(r, request[r].expense,
                 [group |-> request[r].input.group, total |-> request[r].input.total,
                  paidBy |-> UserOf[request[r].input.paidBy],
                  createdBy |-> request[r].input.createdBy],
                 request[r].participants, request[r].debts)
<1> DEFINE input == request[r].input
           row == [group |-> input.group, total |-> input.total,
                   paidBy |-> UserOf[input.paidBy], createdBy |-> input.createdBy]
<1>1. /\ Writing(r)
      /\ expense' = [f \in DOMAIN expense \cup {request[r].expense} |->
                       IF f = request[r].expense THEN row ELSE expense[f]]
      /\ participant' = participant \cup request[r].participants
      /\ debt' = debt \cup request[r].debts
      /\ request' = [request EXCEPT ![r] = Announcing(DebtNotices(request[r].debts))]
      /\ UNCHANGED groups /\ UNCHANGED <<told, lost>>
  BY DEF CommitExpense, Writing, notices, owed
<1>2. request[r] \in Creating /\ request[r].expense \in ExpenseIds \ DOMAIN expense
  BY <1>1, Kinds DEF IInv, Reserved, Writing
<1>3. /\ input \in ValidInputs /\ input \in Inputs
      /\ request[r].participants \subseteq ParticipantRow /\ request[r].debts \subseteq DebtRow
  BY <1>2 DEF Creating, ValidInputs
<1>4. row \in ExpenseRow
  BY <1>3, InputsOK DEF ExpenseRow, InputTotals
<1>5. /\ row.group = input.group
      /\ row.paidBy = UserOf[input.paidBy] /\ row.createdBy = input.createdBy
  OBVIOUS
<1>6. Checked(r)
  BY DEF IInv, AllChecked
<1>7. /\ UserOf[input.paidBy] \in DOMAIN member[input.group]
      /\ input.createdBy \in DOMAIN member[input.group]
      /\ \A p \in request[r].participants :
           p.expense = request[r].expense /\ p.user \in DOMAIN member[input.group]
      /\ \A d \in request[r].debts : d.expense = request[r].expense
  BY <1>1, <1>6 DEF Checked, Writing
<1> HIDE DEF row
<1> QED
  BY <1>1, <1>2, <1>3, <1>4, <1>5, <1>7 DEF Commits, row

LEMMA CommitsKeep ==
  ASSUME IInv, NEW r \in Requests, NEW e, NEW row, NEW participants, NEW debts,
         Commits(r, e, row, participants, debts)
  PROVE  IInv'
<1>1. /\ Writing(r) /\ e = request[r].expense /\ e \in ExpenseIds \ DOMAIN expense
      /\ row \in ExpenseRow
      /\ {row.paidBy, row.createdBy} \subseteq DOMAIN member[row.group]
      /\ participants \subseteq ParticipantRow /\ debts \subseteq DebtRow
      /\ \A p \in participants : p.expense = e /\ p.user \in DOMAIN member[row.group]
      /\ \A d \in debts : d.expense = e
      /\ expense' = [f \in DOMAIN expense \cup {e} |-> IF f = e THEN row ELSE expense[f]]
      /\ participant' = participant \cup participants
      /\ debt' = debt \cup debts
      /\ request' = [request EXCEPT ![r] = Announcing(DebtNotices(debts))]
      /\ UNCHANGED groups /\ UNCHANGED <<told, lost>>
  BY DEF Commits
<1>2. TypeOK /\ RowsBelong /\ Reserved
  BY DEF IInv
<1>3. PICK todo : todo = DebtNotices(debts)
  OBVIOUS
<1>4. todo \in SUBSET Notice /\ \A notice \in todo : notice.expense = e
  BY <1>1, <1>3 DEF DebtNotices, DebtRow, Notice
<1>5. PICK req : req = Announcing(todo)
  OBVIOUS
<1>6. /\ req \in Request /\ req.kind \notin {"create", "addMember"}
      /\ (IF req.kind = "announce" THEN req.todo ELSE {}) = todo
  BY <1>4, <1>5, AnnouncingIs
<1>7. /\ request' \in [Requests -> Request] /\ request'[r] = req
      /\ \A q \in Requests \ {r} : request'[q] = request[q]
  BY <1>1, <1>2, <1>3, <1>5, <1>6, Becomes
<1>8. GroupsOK' /\ MembersStay /\ member' = member
  BY <1>1, <1>2, SameGroups DEF groups
<1>9. /\ DOMAIN expense' = DOMAIN expense \cup {e} /\ expense'[e] = row
      /\ \A f \in DOMAIN expense : expense'[f] = expense[f]
  BY <1>1
<1>10. RowsOK'
  BY <1>1, <1>2, <1>9 DEF TypeOK, RowsOK
<1>11. AllChecked'
  <2>1. Checked(r)'
    BY <1>6, <1>7 DEF Checked
  <2> QED
    BY <1>7, <1>8, <2>1, CheckedKept DEF AllChecked
<1>12. Reserved'
  <2>1. \A q \in Requests :
          Writing(q)' => q # r /\ Writing(q) /\ request'[q] = request[q]
    BY <1>6, <1>7 DEF Writing
  <2>2. \A q \in Requests \ {r} : Writing(q) => request[q].expense # e
    BY <1>1, <1>2 DEF Reserved
  <2> QED
    BY <1>2, <1>9, <2>1, <2>2 DEF Reserved
<1>13. RowsBelong'
  BY <1>1, <1>2, <1>9 DEF RowsBelong
<1>14. OnlyMembersShare'
  <2> SUFFICES ASSUME NEW f \in DOMAIN expense'
               PROVE  /\ expense'[f].paidBy \in DOMAIN member[expense'[f].group]
                      /\ expense'[f].createdBy \in DOMAIN member[expense'[f].group]
                      /\ \A p \in participant' :
                           p.expense = f => p.user \in DOMAIN member[expense'[f].group]
    BY <1>8 DEF OnlyMembersShare, ParticipantsOf
  <2>1. CASE f = e
    <3>1. \A p \in participant : p.expense # e
      BY <1>1, <1>2 DEF RowsBelong
    <3> QED
      BY <1>1, <1>9, <2>1, <3>1
  <2>2. CASE f # e
    <3>1. f \in DOMAIN expense /\ expense'[f] = expense[f]
      BY <1>9, <2>2
    <3>2. /\ expense[f].paidBy \in DOMAIN member[expense[f].group]
          /\ expense[f].createdBy \in DOMAIN member[expense[f].group]
          /\ \A p \in participant : p.expense = f => p.user \in DOMAIN member[expense[f].group]
      BY <3>1 DEF IInv, OnlyMembersShare, ParticipantsOf
    <3>3. \A p \in participants : p.expense # f
      BY <1>1, <2>2
    <3> QED
      BY <1>1, <3>1, <3>2, <3>3
  <2> QED
    BY <2>1, <2>2
<1>15. Due(r) = {} /\ Due(r)' = todo /\ \A q \in Requests \ {r} : Due(q)' = Due(q)
  BY <1>1, <1>6, <1>7 DEF Due, Writing
<1>16. /\ DebtNotices(debt) = told \cup lost \cup UNION {Due(q) : q \in Requests}
       /\ told \cap lost = {}
       /\ \A q \in Requests : Due(q) \cap (told \cup lost) = {}
  BY DEF IInv, DebtorsAreTold
<1>17. DebtNotices(debt) \cap todo = {}
  <2>1. \A notice \in DebtNotices(debt) : notice.expense \in DOMAIN expense
    BY <1>2 DEF DebtNotices, RowsBelong
  <2> QED
    BY <1>1, <1>4, <2>1
<1>18. \A q \in Requests : Due(q) \cap todo = {}
  BY <1>16, <1>17
<1>19. DuesApart'
  <2>1. DuesApart
    BY DEF IInv
  <2> QED
    BY <1>15, <1>18, <2>1 DEF DuesApart
<1>20. DebtorsAreTold'
  <2>1. DebtNotices(debt') = DebtNotices(debt) \cup todo
    BY <1>1, <1>3 DEF DebtNotices
  <2>2. /\ Due(r)' = todo
        /\ \A q \in Requests : Due(q) \subseteq Due(q)' /\ Due(q)' \subseteq Due(q) \cup todo
    BY <1>15
  <2>3. UNION {Due(q)' : q \in Requests} = (UNION {Due(q) : q \in Requests}) \cup todo
    BY <2>2
  <2>4. told' = told /\ lost' = lost
    BY <1>1
  <2>5. \A q \in Requests : Due(q)' \cap (told \cup lost) = {}
    <3>1. todo \cap (told \cup lost) = {}
      BY <1>16, <1>17
    <3> QED
      BY <1>15, <1>16, <3>1
  <2> QED
    BY <1>16, <2>1, <2>3, <2>4, <2>5 DEF DebtorsAreTold
<1> QED
  BY <1>7, <1>8, <1>10, <1>11, <1>12, <1>13, <1>14, <1>19, <1>20 DEF IInv, TypeOK

-------------------------------------------------------------------------------
(* The decisions of debts. *)

\* A decision of a debt: its row becomes another of the same parties.
Redone(d, row) ==
    /\ d \in debt /\ debt' = (debt \ {d}) \cup {row}
    /\ row.expense = d.expense /\ row.debtor = d.debtor /\ row.creditor = d.creditor
    /\ row.amount = d.amount \/ Adjusted(d, row.amount) \in resent'
    /\ resent \subseteq resent'
    /\ UNCHANGED <<groups, expense, participant, notices, request>>

LEMMA DebtStepsRedo ==
  ASSUME TypeOK, DebtStep
  PROVE  \E d \in debt, row \in DebtRow : Redone(d, row)
<1>0. debt \subseteq DebtRow
  BY DEF TypeOK, RowsOK
<1>1. ASSUME NEW d \in debt, NEW u \in Rejecters, RejectDebt(d, u)
      PROVE  \E row \in DebtRow : Redone(d, row)
  <2>1. PICK row : row = [d EXCEPT !.status = "rejected"]
    OBVIOUS
  <2>2. /\ row \in DebtRow /\ row.expense = d.expense /\ row.debtor = d.debtor
        /\ row.creditor = d.creditor /\ row.amount = d.amount
    BY <1>0, <2>1 DEF DebtRow
  <2> QED
    BY <1>1, <2>1, <2>2 DEF RejectDebt, Redone, notices
<1>2. ASSUME NEW d \in debt, NEW u \in Users, NEW amount \in Adjustments \cup {d.amount},
             ReviewRejectedDebt(d, u, amount)
      PROVE  \E row \in DebtRow : Redone(d, row)
  <2>1. PICK row : row = [d EXCEPT !.status = "pending", !.amount = amount]
    OBVIOUS
  <2>2. /\ row \in DebtRow /\ row.expense = d.expense /\ row.debtor = d.debtor
        /\ row.creditor = d.creditor /\ row.amount = amount
    BY <1>0, <2>1 DEF DebtRow
  <2>3. /\ resent \subseteq resent'
        /\ row.amount = d.amount \/ Adjusted(d, row.amount) \in resent'
    BY <1>2, <2>2 DEF ReviewRejectedDebt
  <2> QED
    BY <1>2, <2>1, <2>2, <2>3 DEF ReviewRejectedDebt, Redone
<1> QED
  BY <1>1, <1>2 DEF DebtStep

LEMMA DebtStepsKeep ==
  ASSUME IInv, DebtStep
  PROVE  IInv'
<1>0. TypeOK
  BY DEF IInv
<1>1. PICK d \in debt, row \in DebtRow : Redone(d, row)
  BY <1>0, DebtStepsRedo
<1>2. /\ debt' = (debt \ {d}) \cup {row} /\ row.expense = d.expense /\ row.debtor = d.debtor
      /\ UNCHANGED groups /\ UNCHANGED <<expense, participant, told, lost, request>>
  BY <1>1 DEF Redone, notices
<1>3. GroupsOK' /\ MembersStay
  BY <1>0, <1>2, SameGroups
<1>4. TypeOK'
  <2>1. RowsOK'
    BY <1>0, <1>2 DEF TypeOK, RowsOK
  <2> QED
    BY <1>0, <1>2, <1>3, <2>1 DEF TypeOK
<1>5. AllChecked'
  BY <1>2, <1>3, CheckedKept DEF AllChecked
<1>6. Reserved' /\ RowsBelong'
  BY <1>2 DEF IInv, Reserved, Writing, RowsBelong
<1>7. OnlyMembersShare'
  BY <1>2 DEF IInv, OnlyMembersShare, ParticipantsOf, groups
<1>8. DebtNotices(debt') = DebtNotices(debt)
  BY <1>2 DEF DebtNotices
<1>9. DebtorsAreTold' /\ DuesApart'
  BY <1>2, <1>8 DEF IInv, DebtorsAreTold, DuesApart, Due
<1> QED
  BY <1>4, <1>5, <1>6, <1>7, <1>9 DEF IInv

-------------------------------------------------------------------------------
LEMMA NextKeeps == IInv /\ [Next]_vars => IInv'
<1> SUFFICES ASSUME IInv, [Next]_vars PROVE IInv'
  OBVIOUS
<1>0. TypeOK /\ \A r \in Requests : Checked(r)
  BY DEF IInv, AllChecked
<1>1. CASE GroupStep
  BY <1>0, <1>1, GroupsAreQuiet, AddMemberIsQuiet, QuietKeeps DEF GroupStep
<1>2. CASE CreateStep
  <2>1. PICK r \in Requests :
          \/ \E input \in Inputs : CreateBegin(r, input)
          \/ CheckPayer(r) \/ CheckParticipant(r) \/ InsertParticipant(r)
          \/ InsertExpense(r) \/ CommitExpense(r)
          \/ Announce(r) \/ AnnounceFails(r) \/ Abandon(r)
    BY <1>2 DEF CreateStep
  <2>2. CASE \/ \E input \in Inputs : CreateBegin(r, input)
             \/ CheckPayer(r) \/ CheckParticipant(r) \/ InsertParticipant(r)
    BY <1>0, <2>2, CreateBeginIsQuiet, CheckPayerIsQuiet, CheckParticipantIsQuiet,
       InsertParticipantIsQuiet, QuietKeeps
  <2>3. CASE InsertExpense(r)
    BY <2>3, InsertExpenseKeeps
  <2>4. CASE CommitExpense(r)
    BY <2>4, CommitCommits, CommitsKeep
  <2>5. CASE Announce(r) \/ AnnounceFails(r) \/ Abandon(r)
    BY <2>5, TellingSteps
  <2> QED
    BY <2>1, <2>2, <2>3, <2>4, <2>5
<1>3. CASE GetStep
  BY <1>0, <1>3, GetIsQuiet, QuietKeeps DEF GetStep
<1>4. CASE UNCHANGED vars
  <2>1. Quiet
    BY <1>0, <1>4 DEF vars, groups, notices, owed, Quiet, MembersStay, TypeOK, GroupsOK, RowsOK
  <2> QED
    BY <2>1, QuietKeeps
<1>5. CASE DebtStep
  BY <1>5, DebtStepsKeep
<1> QED
  BY <1>1, <1>2, <1>3, <1>4, <1>5 DEF Next

LEMMA InitHolds == Init => IInv
<1> SUFFICES ASSUME Init PROVE IInv
  OBVIOUS
<1>1. TypeOK
  <2>1. GroupsOK
    BY DEF Init, GroupsOK
  <2>2. RowsOK
    BY DEF Init, RowsOK
  <2> QED
    BY <2>1, <2>2 DEF Init, TypeOK, Request
<1>2. \A r \in Requests : request[r].kind = "idle"
  BY DEF Init, Idle
<1>3. Reserved /\ AllChecked
  BY <1>2 DEF Reserved, AllChecked, Writing, Checked
<1>4. \A r \in Requests : Due(r) = {}
  BY <1>2 DEF Due
<1>5. DebtorsAreTold /\ DuesApart
  BY <1>4 DEF Init, DebtorsAreTold, DuesApart, DebtNotices
<1>6. RowsBelong /\ OnlyMembersShare
  BY DEF Init, RowsBelong, OnlyMembersShare
<1> QED
  BY <1>1, <1>3, <1>5, <1>6 DEF IInv

LEMMA Always == Spec => []IInv
  BY InitHolds, NextKeeps, PTL DEF Spec

\* OnlyMembersShare: whoever pays, writes down or shares an expense is a member of its
\* group, whatever the bodies and whoever else is being added at the same time.
THEOREM SharersAreMembers == Spec => []OnlyMembersShare
  BY Always, PTL DEF IInv

\* DebtorsAreTold: every committed debt is announced once, to be announced, or lost by
\* a failure after the commit, and no other debt is announced.
THEOREM DebtorsAreToldOnce == Spec => []DebtorsAreTold
  BY Always, PTL DEF IInv

-------------------------------------------------------------------------------
(* Expenses are whole. *)

\* The rows that a transaction writes for its participant i.
RowOf(input, e, i) ==
    [expense |-> e, user |-> UserOf[input.participants[i]], share |-> Shares(input)[i]]
DebtOf(input, e, i) ==
    [expense |-> e, debtor |-> UserOf[input.participants[i]],
     creditor |-> UserOf[input.paidBy], amount |-> Shares(input)[i], status |-> "pending"]
Owes(input, i) == input.participants[i] # input.paidBy

RowsUpTo(input, e, k) == {RowOf(input, e, i) : i \in 1..k}
DebtsUpTo(input, e, k) == {DebtOf(input, e, i) : i \in {i \in 1..k : Owes(input, i)}}

\* The first k ids name different users, and none that is another spelling of the payer's.
FitUpTo(input, k) ==
    /\ \A i, j \in 1..k : UserOf[input.participants[i]] = UserOf[input.participants[j]] => i = j
    /\ \A i \in 1..k : Owes(input, i) => UserOf[input.participants[i]] # UserOf[input.paidBy]

\* A transaction has written the rows of its participants in order, and those it has
\* written passed the constraints.
Written(r) ==
    request[r].kind = "create" =>
      LET req == request[r]
      IN  /\ req.stage # "rows" => req.done = 0
          /\ req.done \in 0..Len(req.input.participants)
          /\ req.participants = RowsUpTo(req.input, req.expense, req.done)
          /\ req.debts = DebtsUpTo(req.input, req.expense, req.done)
          /\ FitUpTo(req.input, req.done)

\* What Get has read of an expense is still what there is of it; but for the debts, which
\* went with the rest when they were read.
Current(r) ==
    request[r].kind = "get" =>
      LET req == request[r]
      IN  /\ req.expense \in DOMAIN expense /\ req.row = expense[req.expense]
          /\ req.stage # "participants" => req.participants = ParticipantsOf(req.expense)
          /\ req.stage = "done" => Whole(req.expense, req.row, req.participants, req.debts)

CommittedWhole ==
    \A e \in DOMAIN expense : Whole(e, expense[e], ParticipantsOf(e), DebtsOf(e))

WInv == CommittedWhole /\ \A r \in Requests : Written(r) /\ Current(r)

\* The shares of a body that passes the checks: positive, one for each participant, and
\* together the total.
LEMMA SharesAre ==
  ASSUME NEW input \in ValidInputs
  PROVE  /\ Len(input.participants) \in Nat /\ Len(input.participants) > 0
         /\ DOMAIN input.participants = 1..Len(input.participants)
         /\ Shares(input) \in [1..Len(input.participants) -> 1..MaxInt]
         /\ SumOf(Shares(input)) = input.total
<1> DEFINE n == Len(input.participants)
<1>1. /\ input \in Inputs /\ input.total \in Int64 /\ input.participants \in Seq(Ids)
      /\ input.shares \in Seq(Int64) /\ DOMAIN input.shares = DOMAIN input.participants
      /\ input.splitType \in {"equal", "manual"}
  BY ExpensesAssumption DEF ValidInputs
<1>2. /\ input.total > 0 /\ input.participants # <<>>
      /\ IF input.splitType = "equal"
         THEN SplitEqual(input.total, n).err = "nil"
         ELSE ValidateManualSplit(input.total, input.shares) = "nil"
  BY DEF ValidInputs, ValidInput
<1>3. n \in Nat /\ n > 0 /\ DOMAIN input.participants = 1..n
  BY <1>1, <1>2
<1>4. CASE input.splitType = "equal"
  <2>1. PICK answer : answer = SplitEqual(input.total, n)
    OBVIOUS
  <2>2. answer.err = "nil" /\ Shares(input) = answer.value
    BY <1>2, <1>4, <2>1 DEF Shares
  <2>3. CASE n \in Int64
    <3>1. answer.value \in [1..n -> 1..MaxInt] /\ SumOf(answer.value) = input.total
      BY <1>1, <2>1, <2>2, <2>3, EqualSplits
    <3> QED
      BY <1>3, <2>2, <3>1
  <2>4. CASE n \notin Int64
    <3>1. n > MaxInt /\ MaxInt \in Nat
      BY <1>3, <2>4, MoneyAssumption DEF Int64
    <3>2. PICK total \in Nat : total = input.total /\ total > 0 /\ total < n
      <4>1. input.total \in Nat /\ input.total <= MaxInt
        BY <1>1, <1>2, MoneyAssumption DEF Int64
      <4> QED
        BY <1>2, <1>3, <3>1, <4>1
    <3>3. total \div n = 0
      BY <1>3, <3>2
    <3>4. answer.err = "ErrInvalidSplit"
      BY <1>3, <2>1, <3>2, <3>3 DEF SplitEqual, Fails
    <3> QED
      BY <2>2, <3>4
  <2> QED
    BY <2>3, <2>4
<1>5. CASE input.splitType = "manual"
  <2>1. PICK shares : shares = input.shares
    OBVIOUS
  <2>2. /\ shares \in Seq(Int64) /\ Shares(input) = shares
        /\ ValidateManualSplit(input.total, shares) = "nil"
    BY <1>1, <1>2, <1>5, <2>1 DEF Shares
  <2>3. (\A i \in DOMAIN shares : shares[i] > 0) /\ SumOf(shares) = input.total
    BY <1>1, <2>2, ManualSplits
  <2>4. DOMAIN shares = 1..n /\ shares = [i \in DOMAIN shares |-> shares[i]]
    BY <1>1, <1>3, <2>1, <2>2
  <2>5. \A i \in DOMAIN shares : shares[i] \in 1..MaxInt
    <3>1. \A i \in DOMAIN shares : shares[i] \in Int64
      BY <2>2
    <3>2. \A k \in Int64 : k > 0 => k \in 1..MaxInt
      BY MoneyAssumption DEF Int64
    <3> QED
      BY <2>3, <3>1, <3>2
  <2>6. shares \in [1..n -> 1..MaxInt]
    BY <2>4, <2>5
  <2> QED
    BY <1>3, <2>2, <2>3, <2>6
<1> QED
  BY <1>1, <1>4, <1>5

\* The rows of a complete transaction add up as the shares do.
LEMMA RowsAddUp ==
  ASSUME NEW input \in ValidInputs, NEW e, NEW n, n = Len(input.participants),
         FitUpTo(input, n)
  PROVE  SumOfShares(RowsUpTo(input, e, n)) = input.total
<1> DEFINE shares == Shares(input)
           rows == RowsUpTo(input, e, n)
           U == {u \in (DOMAIN shares) \X (1..MaxInt) : u[2] <= shares[u[1]]}
           V == {u \in rows \X (1..MaxInt) : u[2] <= u[1].share}
           rowOf == [u \in U |-> <<RowOf(input, e, u[1]), u[2]>>]
<1>1. /\ n \in Nat /\ shares \in [1..n -> 1..MaxInt] /\ DOMAIN shares = 1..n
      /\ SumOf(shares) = input.total
  BY SharesAre
<1>2. \A i \in 1..n : RowOf(input, e, i) \in rows /\ RowOf(input, e, i).share = shares[i]
  BY DEF RowsUpTo, RowOf
<1>3. \A i, j \in 1..n : RowOf(input, e, i) = RowOf(input, e, j) => i = j
  <2>1. \A i \in 1..n : RowOf(input, e, i).user = UserOf[input.participants[i]]
    BY DEF RowOf
  <2> QED
    BY <2>1 DEF FitUpTo
<1>4. \A row \in rows : \E i \in 1..n : row = RowOf(input, e, i)
  BY DEF RowsUpTo
<1> HIDE DEF shares, rows
<1>5. \A u \in U : u[1] \in 1..n /\ u[2] \in 1..MaxInt /\ u = <<u[1], u[2]>> /\ u[2] <= shares[u[1]]
  BY <1>1
<1>6. rowOf \in [U -> V]
  <2>1. \A u \in U : <<RowOf(input, e, u[1]), u[2]>> \in V
    BY <1>2, <1>5
  <2> HIDE DEF U, V
  <2> QED
    BY <2>1
<1>7. ASSUME NEW u \in U, NEW v \in U, rowOf[u] = rowOf[v] PROVE u = v
  <2>1. RowOf(input, e, u[1]) = RowOf(input, e, v[1]) /\ u[2] = v[2]
    BY <1>7
  <2> QED
    BY <1>3, <1>5, <2>1
<1>8. ASSUME NEW v \in V PROVE \E u \in U : rowOf[u] = v
  <2>1. v[1] \in rows /\ v[2] \in 1..MaxInt /\ v = <<v[1], v[2]>> /\ v[2] <= v[1].share
    OBVIOUS
  <2>2. PICK i \in 1..n : v[1] = RowOf(input, e, i)
    BY <1>4, <2>1
  <2>3. <<i, v[2]>> \in U
    BY <1>1, <1>2, <2>1, <2>2
  <2>4. rowOf[<<i, v[2]>>] = <<RowOf(input, e, i), v[2]>>
    BY <2>3
  <2> QED
    BY <2>1, <2>2, <2>3, <2>4
<1>9. rowOf \in Bijection(U, V)
  <2> HIDE DEF rowOf, U, V
  <2> QED
    BY <1>6, <1>7, <1>8 DEF Bijection, Injection, Surjection, IsInjective
<1>10. IsFiniteSet(U)
  <2>1. IsFiniteSet(1..n) /\ IsFiniteSet(1..MaxInt)
    BY <1>1, CountUpTo, MoneyAssumption
  <2>2. IsFiniteSet((1..n) \X (1..MaxInt))
    BY <2>1, FS_Product
  <2>3. U \subseteq (1..n) \X (1..MaxInt)
    BY <1>1
  <2> QED
    BY <2>2, <2>3, FS_Subset
<1>11. Cardinality(V) = Cardinality(U)
  <2> HIDE DEF rowOf, U, V
  <2>1. ExistsBijection(U, V)
    BY <1>9 DEF ExistsBijection
  <2> QED
    BY <1>10, <2>1, FS_Bijection
<1> QED
  BY <1>1, <1>11 DEF SumOf, SumOfShares, shares, rows

\* A complete transaction is whole.
LEMMA CompleteIsWhole ==
  ASSUME NEW input \in ValidInputs, NEW e, NEW n, n = Len(input.participants),
         FitUpTo(input, n),
         NEW row, row.total = input.total, row.paidBy = UserOf[input.paidBy]
  PROVE  Whole(e, row, RowsUpTo(input, e, n), DebtsUpTo(input, e, n))
<1> DEFINE rows == RowsUpTo(input, e, n)
           debts == DebtsUpTo(input, e, n)
           debtOf(p) == [expense |-> e, debtor |-> p.user, creditor |-> row.paidBy,
                         amount |-> p.share, status |-> "pending"]
<1>1. SumOfShares(rows) = row.total
  BY RowsAddUp
<1>2. \A i \in 1..n : /\ RowOf(input, e, i).user = UserOf[input.participants[i]]
                      /\ debtOf(RowOf(input, e, i)) = DebtOf(input, e, i)
                      /\ RowOf(input, e, i).user # row.paidBy <=> Owes(input, i)
  <2> TAKE i \in 1..n
  <2>1. /\ RowOf(input, e, i).user = UserOf[input.participants[i]]
        /\ RowOf(input, e, i).share = Shares(input)[i]
    BY DEF RowOf
  <2>2. debtOf(RowOf(input, e, i)) = DebtOf(input, e, i)
    BY <2>1 DEF DebtOf
  <2>3. RowOf(input, e, i).user # row.paidBy <=> Owes(input, i)
    BY <2>1 DEF FitUpTo, Owes
  <2> QED
    BY <2>1, <2>2, <2>3
<1>3. \A p, q \in rows : p.user = q.user => p = q
  BY <1>2 DEF FitUpTo, RowsUpTo
<1>4. debts = {debtOf(p) : p \in {p \in rows : p.user # row.paidBy}}
  <2>1. ASSUME NEW d \in debts PROVE d \in {debtOf(p) : p \in {p \in rows : p.user # row.paidBy}}
    <3>1. PICK i \in 1..n : Owes(input, i) /\ d = DebtOf(input, e, i)
      BY DEF DebtsUpTo
    <3>2. RowOf(input, e, i) \in rows
      BY DEF RowsUpTo
    <3> HIDE DEF debtOf
    <3> QED
      BY <1>2, <3>1, <3>2
  <2>2. ASSUME NEW p \in rows, p.user # row.paidBy PROVE debtOf(p) \in debts
    <3>1. PICK i \in 1..n : p = RowOf(input, e, i)
      BY DEF RowsUpTo
    <3>2. Owes(input, i) /\ debtOf(p) = DebtOf(input, e, i)
      BY <1>2, <2>2, <3>1
    <3> HIDE DEF debtOf
    <3> QED
      BY <3>2 DEF DebtsUpTo
  <2> HIDE DEF rows, debts, debtOf
  <2> QED
    BY <2>1, <2>2
<1>5. debts # {}
  <2>1. PICK i \in DOMAIN input.participants : Owes(input, i)
    BY DEF ValidInputs, ValidInput, Owes
  <2>2. i \in 1..n
    BY SharesAre
  <2> QED
    BY <2>1, <2>2 DEF DebtsUpTo
<1> HIDE DEF rows, debts
<1>6. /\ \A p \in rows : p.user # row.paidBy => debtOf(p) \in debts
      /\ \A d \in debts : \E p \in rows : p.user # row.paidBy /\ d = debtOf(p)
  BY <1>4
<1>7. \A p : /\ debtOf(p).expense = e /\ debtOf(p).debtor = p.user
             /\ debtOf(p).creditor = row.paidBy /\ debtOf(p).amount = p.share
  OBVIOUS
<1> HIDE DEF debtOf
<1>8. \A c, d \in debts : c.debtor = d.debtor => c = d
  BY <1>3, <1>6, <1>7
<1>9. {<<d.expense, d.debtor, d.creditor>> : d \in debts}
        = {<<e, p.user, row.paidBy>> : p \in {p \in rows : p.user # row.paidBy}}
  <2>1. ASSUME NEW d \in debts
        PROVE  \E p \in {p \in rows : p.user # row.paidBy} :
                 <<d.expense, d.debtor, d.creditor>> = <<e, p.user, row.paidBy>>
    BY <1>6, <1>7
  <2>2. ASSUME NEW p \in {p \in rows : p.user # row.paidBy}
        PROVE  \E d \in debts : <<d.expense, d.debtor, d.creditor>> = <<e, p.user, row.paidBy>>
    BY <1>6, <1>7
  <2> QED
    BY <2>1, <2>2
<1>10. \A d \in debts, p \in rows : p.user = d.debtor => d.amount = p.share
  BY <1>3, <1>6, <1>7
<1>11. Whole(e, row, rows, debts)
  BY <1>1, <1>3, <1>5, <1>8, <1>9, <1>10 DEF Whole, Agreed
<1> QED
  BY <1>11 DEF rows, debts

-------------------------------------------------------------------------------
(* The steps of a transaction and of Get. *)

\* Any step but a commit changes one request.
Moves(r, req) ==
    /\ request' = [request EXCEPT ![r] = req]
    /\ UNCHANGED <<expense, participant, debt, resent>>

\* What was whole stays so: reviews are not forgotten.
LEMMA WholeStays ==
  ASSUME NEW e, NEW row, NEW participants, NEW debts,
         Whole(e, row, participants, debts), resent \subseteq resent'
  PROVE  Whole(e, row, participants, debts)'
<1>1. \A d \in debts, p \in participants : Agreed(d, p.share) => Agreed(d, p.share)'
  BY DEF Agreed, Adjusted
<1> QED
  BY <1>1 DEF Whole

\* Nor does what a request has read, while what is committed stays.
LEMMA CurrentStays ==
  ASSUME NEW q \in Requests, Current(q), request'[q] = request[q],
         resent \subseteq resent',
         \A e \in DOMAIN expense :
           /\ e \in DOMAIN expense' /\ expense'[e] = expense[e]
           /\ ParticipantsOf(e)' = ParticipantsOf(e)
  PROVE  Current(q)'
<1> SUFFICES ASSUME request[q].kind = "get" PROVE Current(q)'
  BY DEF Current
<1>1. PICK req : req = request[q]
  OBVIOUS
<1>2. /\ req.kind = "get" /\ req.expense \in DOMAIN expense /\ req.row = expense[req.expense]
      /\ req.stage # "participants" => req.participants = ParticipantsOf(req.expense)
      /\ req.stage = "done" => Whole(req.expense, req.row, req.participants, req.debts)
  BY <1>1 DEF Current
<1>3. PICK e, row, participants, debts :
        e = req.expense /\ row = req.row /\ participants = req.participants /\ debts = req.debts
  OBVIOUS
<1>4. req.stage = "done" => Whole(e, row, participants, debts)'
  BY <1>2, <1>3, WholeStays
<1>5. /\ e \in DOMAIN expense' /\ row = expense'[e]
      /\ req.stage # "participants" => participants = {p \in participant' : p.expense = e}
  BY <1>2, <1>3 DEF ParticipantsOf
<1>6. /\ e \in DOMAIN expense' /\ req.row = expense'[e]
      /\ req.stage # "participants" => req.participants = ParticipantsOf(e)'
  BY <1>3, <1>5 DEF ParticipantsOf
<1> QED
  BY <1>1, <1>3, <1>4, <1>6 DEF Current

LEMMA CommittedStays ==
  ASSUME CommittedWhole, UNCHANGED <<expense, participant, debt, resent>>
  PROVE  CommittedWhole'
<1> SUFFICES ASSUME NEW e \in DOMAIN expense
             PROVE  Whole(e, expense[e], ParticipantsOf(e), DebtsOf(e))'
  BY DEF CommittedWhole
<1>1. PICK row, participants, debts :
        row = expense[e] /\ participants = ParticipantsOf(e) /\ debts = DebtsOf(e)
  OBVIOUS
<1>2. Whole(e, row, participants, debts)'
  BY <1>1, WholeStays DEF CommittedWhole
<1>3. /\ row = expense'[e] /\ participants = {p \in participant' : p.expense = e}
      /\ debts = {d \in debt' : d.expense = e}
  BY <1>1 DEF ParticipantsOf, DebtsOf
<1> QED
  BY <1>2, <1>3 DEF Whole, ParticipantsOf, DebtsOf

LEMMA MovesKeep ==
  ASSUME TypeOK, WInv, NEW r \in Requests, NEW req, Moves(r, req),
         Written(r)' /\ Current(r)'
  PROVE  WInv'
<1>1. \A q \in Requests \ {r} : request'[q] = request[q]
  BY DEF Moves, TypeOK
<1>2. UNCHANGED <<expense, participant, debt, resent>>
  BY DEF Moves
<1>3. ASSUME NEW q \in Requests PROVE Written(q)' /\ Current(q)'
  <2>1. CASE q = r
    BY <2>1
  <2>2. CASE q # r
    <3>1. request'[q] = request[q] /\ Written(q) /\ Current(q)
      BY <1>1, <2>2 DEF WInv
    <3>2. Current(q)'
      BY <1>2, <3>1, CurrentStays DEF ParticipantsOf
    <3> QED
      BY <3>1, <3>2 DEF Written
  <2> QED
    BY <2>1, <2>2
<1>4. CommittedWhole'
  BY <1>2, CommittedStays DEF WInv
<1> QED
  BY <1>3, <1>4 DEF WInv

\* A request that neither writes nor reads an expense.
LEMMA OthersKeep ==
  ASSUME TypeOK, WInv, NEW r \in Requests, NEW req, Moves(r, req),
         req.kind \notin {"create", "get"}
  PROVE  WInv'
<1>1. request'[r] = req
  BY DEF Moves, TypeOK
<1>2. Written(r)' /\ Current(r)'
  BY <1>1 DEF Written, Current
<1> QED
  BY <1>2, MovesKeep

\* A transaction before its first row.
LEMMA EmptyKeeps ==
  ASSUME TypeOK, WInv, NEW r \in Requests, NEW req \in Creating, Moves(r, req),
         req.done = 0, req.participants = {}, req.debts = {}
  PROVE  WInv'
<1>1. request'[r] = req /\ req.kind = "create"
  BY DEF Moves, TypeOK, Creating
<1>2. Len(req.input.participants) \in Nat
  BY SharesAre DEF Creating
<1>3. 1..0 = {}
  OBVIOUS
<1>4. /\ RowsUpTo(req.input, req.expense, 0) = {}
      /\ DebtsUpTo(req.input, req.expense, 0) = {}
      /\ FitUpTo(req.input, 0)
  BY <1>3 DEF RowsUpTo, DebtsUpTo, FitUpTo
<1>5. /\ req.done \in 0..Len(req.input.participants)
      /\ req.participants = RowsUpTo(req.input, req.expense, req.done)
      /\ req.debts = DebtsUpTo(req.input, req.expense, req.done)
      /\ FitUpTo(req.input, req.done)
  BY <1>2, <1>4
<1>6. Written(r)'
  BY <1>1, <1>5 DEF Written
<1>7. Current(r)'
  BY <1>1 DEF Current
<1> QED
  BY <1>6, <1>7, MovesKeep

LEMMA FirstStepsKeep ==
  ASSUME IInv, WInv, NEW r \in Requests,
         \/ \E input \in Inputs : CreateBegin(r, input)
         \/ CheckPayer(r) \/ CheckParticipant(r) \/ InsertExpense(r)
  PROVE  WInv'
<1>0. TypeOK /\ Checked(r) /\ Written(r)
  BY DEF IInv, WInv, AllChecked
<1>1. ASSUME NEW input \in Inputs, CreateBegin(r, input) PROVE WInv'
  <2> DEFINE req == [kind |-> "create", stage |-> "payer", input |-> input, unchecked |-> {},
                     expense |-> 0, done |-> 0, participants |-> {}, debts |-> {}]
  <2>1. ValidInput(input) /\ Moves(r, req)
    BY <1>1 DEF CreateBegin, Moves, owed
  <2>2. req \in Creating
    BY <2>1 DEF Creating, SomeIds, ValidInputs
  <2>3. req.done = 0 /\ req.participants = {} /\ req.debts = {}
    OBVIOUS
  <2> HIDE DEF req
  <2> QED
    BY <1>0, <2>1, <2>2, <2>3, EmptyKeeps
\* The later ones leave the rows alone.
<1>2. ASSUME request[r].kind = "create", request[r].stage # "rows",
             NEW req \in Creating, Moves(r, req), req.done = request[r].done,
             req.participants = request[r].participants, req.debts = request[r].debts
      PROVE  WInv'
  <2>1. req.done = 0 /\ req.participants = {} /\ req.debts = {}
    BY <1>0, <1>2 DEF Checked, Written
  <2> QED
    BY <1>0, <1>2, <2>1, EmptyKeeps
<1>3. CASE CheckPayer(r)
  <2> DEFINE input == request[r].input
             ids == {input.participants[i] : i \in DOMAIN input.participants}
             req == [request[r] EXCEPT !.stage = "participants", !.unchecked = ids]
  <2>1. request[r].kind = "create" /\ request[r].stage = "payer" /\ Moves(r, req)
    BY <1>3 DEF CheckPayer, Moves, owed
  <2>2. request[r] \in Creating
    BY <1>0, <2>1, Kinds
  <2>3. ids \in SUBSET Ids
    BY <2>2, InputsOK DEF Creating, ValidInputs
  <2> HIDE DEF ids
  <2>4. /\ req \in Creating /\ req.done = request[r].done
        /\ req.participants = request[r].participants /\ req.debts = request[r].debts
    BY <2>2, <2>3 DEF Creating
  <2> HIDE DEF req
  <2> QED
    BY <1>2, <2>1, <2>4
<1>4. CASE CheckParticipant(r)
  <2>1. PICK id \in request[r].unchecked :
          /\ request[r].kind = "create" /\ request[r].stage = "participants"
          /\ request' = [request EXCEPT ![r].unchecked = @ \ {id}]
          /\ UNCHANGED <<expense, participant, debt, resent>>
    BY <1>4 DEF CheckParticipant, owed
  <2> DEFINE req == [request[r] EXCEPT !.unchecked = @ \ {id}]
  <2>2. Moves(r, req)
    BY <2>1 DEF Moves
  <2>3. request[r] \in Creating
    BY <1>0, <2>1, Kinds
  <2>4. /\ req \in Creating /\ req.done = request[r].done
        /\ req.participants = request[r].participants /\ req.debts = request[r].debts
    BY <2>3 DEF Creating
  <2> HIDE DEF req
  <2> QED
    BY <1>2, <2>1, <2>2, <2>4
<1>5. CASE InsertExpense(r)
  <2>1. PICK e \in ExpenseIds :
          /\ request[r].kind = "create" /\ request[r].stage = "participants"
          /\ request' = [request EXCEPT ![r].stage = "rows", ![r].expense = e]
          /\ UNCHANGED <<expense, participant, debt, resent>>
    BY <1>5 DEF InsertExpense, owed
  <2> DEFINE req == [request[r] EXCEPT !.stage = "rows", !.expense = e]
  <2>2. Moves(r, req)
    BY <2>1 DEF Moves
  <2>3. request[r] \in Creating
    BY <1>0, <2>1, Kinds
  <2>4. /\ req \in Creating /\ req.done = request[r].done
        /\ req.participants = request[r].participants /\ req.debts = request[r].debts
    <3>1. e \in SomeIds
      BY DEF SomeIds
    <3> QED
      BY <2>3, <3>1 DEF Creating
  <2> HIDE DEF req
  <2> QED
    BY <1>2, <2>1, <2>2, <2>4
<1> QED
  BY <1>1, <1>3, <1>4, <1>5

\* The next row fits: its user is none of those before, by UNIQUE (expense_id, user_id),
\* and not the payer under another spelling, by CHECK (debtor_id <> creditor_id).
LEMMA InsertParticipantKeeps ==
  ASSUME IInv, WInv, NEW r \in Requests, InsertParticipant(r)
  PROVE  WInv'
<1>0. TypeOK /\ Written(r)
  BY DEF IInv, WInv
<1> DEFINE input == request[r].input
           i == request[r].done + 1
           id == input.participants[i]
           row == [expense |-> request[r].expense, user |-> UserOf[id], share |-> Shares(input)[i]]
           debts == IF id = input.paidBy THEN {}
                    ELSE {[expense |-> request[r].expense, debtor |-> UserOf[id],
                           creditor |-> UserOf[input.paidBy], amount |-> row.share,
                           status |-> "pending"]}
           req == [request[r] EXCEPT !.done = i, !.participants = @ \cup {row},
                                     !.debts = @ \cup debts]
<1>1. /\ request[r].kind = "create" /\ request[r].stage = "rows"
      /\ i \in DOMAIN input.participants
      /\ request' = [request EXCEPT ![r] = req]
      /\ UNCHANGED groups /\ UNCHANGED <<expense, participant, debt, resent, told, lost>>
  BY ONLY InsertParticipant(r), Zenon DEF InsertParticipant, notices, owed
<1> DEFINE e == request[r].expense
           k == request[r].done
<1>2. \A other \in request[r].participants : other.user # row.user
  BY DEF InsertParticipant
<1>3. \A d \in debts : NoSelfDebt(d)
  BY DEF InsertParticipant
<1>4. /\ row = RowOf(input, e, k + 1)
      /\ debts = IF Owes(input, k + 1) THEN {DebtOf(input, e, k + 1)} ELSE {}
  BY DEF RowOf, DebtOf, Owes
<1> HIDE DEF row, debts
<1>5. request[r] \in Creating
  BY <1>0, <1>1, Kinds
<1>6. /\ request'[r] = req
      /\ req.kind = "create" /\ req.stage = "rows" /\ req.input = input /\ req.expense = e
      /\ req.done = k + 1 /\ req.participants = request[r].participants \cup {row}
      /\ req.debts = request[r].debts \cup debts
  BY <1>0, <1>1, <1>5 DEF TypeOK, Creating
<1> HIDE DEF req
<1>7. /\ k \in 0..Len(input.participants) /\ input \in ValidInputs /\ k \in Nat
      /\ request[r].participants = RowsUpTo(input, e, k)
      /\ request[r].debts = DebtsUpTo(input, e, k)
      /\ FitUpTo(input, k)
  <2>1. input \in ValidInputs /\ k \in Nat
    BY <1>5 DEF Creating
  <2> QED
    BY <1>0, <1>1, <2>1 DEF Written
<1> HIDE DEF k, input, e
<1>8. k + 1 \in 0..Len(input.participants)
  <2>1. DOMAIN input.participants = 1..Len(input.participants)
    BY <1>7, SharesAre
  <2>2. Len(input.participants) \in Nat
    BY <1>7, SharesAre
  <2> QED
    BY <1>1, <1>7, <2>1, <2>2 DEF k, input
<1>9. 1..(k + 1) = (1..k) \cup {k + 1} /\ k + 1 \notin 1..k
  BY <1>7
<1>10. /\ RowsUpTo(input, e, k + 1) = request[r].participants \cup {row}
       /\ DebtsUpTo(input, e, k + 1) = request[r].debts \cup debts
  BY <1>4, <1>7, <1>9 DEF RowsUpTo, DebtsUpTo
<1>11. FitUpTo(input, k + 1)
  <2>1. \A j \in 1..k : UserOf[input.participants[j]] # UserOf[input.participants[k + 1]]
    <3> TAKE j \in 1..k
    <3>1. RowOf(input, e, j) \in request[r].participants
      BY <1>7 DEF RowsUpTo
    <3>2. RowOf(input, e, j).user # row.user
      BY <1>2, <3>1
    <3> QED
      BY <1>4, <3>2 DEF RowOf
  <2>2. Owes(input, k + 1) => UserOf[input.participants[k + 1]] # UserOf[input.paidBy]
    BY <1>3, <1>4 DEF DebtOf, NoSelfDebt
  <2> QED
    BY <1>7, <1>9, <2>1, <2>2 DEF FitUpTo
<1>12. Written(r)' /\ Current(r)'
  BY <1>6, <1>8, <1>10, <1>11 DEF Written, Current
<1> QED
  BY <1>0, <1>1, <1>12, MovesKeep DEF Moves

LEMMA GetsKeep ==
  ASSUME IInv, WInv, NEW r \in Requests,
         \/ \E e \in ExpenseIds, u \in Users : GetExpense(r, e, u)
         \/ GetParticipants(r) \/ GetDebts(r)
  PROVE  WInv'
<1>0. TypeOK /\ Current(r)
  BY DEF IInv, WInv
<1>1. ASSUME NEW req, Moves(r, req), req.kind = "get",
             req.expense \in DOMAIN expense, req.row = expense[req.expense],
             req.stage # "participants" => req.participants = ParticipantsOf(req.expense),
             req.stage = "done" => Whole(req.expense, req.row, req.participants, req.debts)
      PROVE  WInv'
  <2>1. request'[r] = req /\ UNCHANGED <<expense, participant, resent>>
    BY <1>0, <1>1 DEF Moves, TypeOK
  <2>2. req.stage = "done" => Whole(req.expense, req.row, req.participants, req.debts)'
    BY <1>1, <2>1, WholeStays
  <2>3. req.stage # "participants" => req.participants = ParticipantsOf(req.expense)'
    BY <1>1, <2>1 DEF ParticipantsOf
  <2>4. Current(r)' /\ Written(r)'
    BY <1>1, <2>1, <2>2, <2>3 DEF Current, Written
  <2> QED
    BY <1>0, <1>1, <2>4, MovesKeep
<1>2. ASSUME NEW e \in ExpenseIds, NEW u \in Users, GetExpense(r, e, u) PROVE WInv'
  <2> DEFINE req == [kind |-> "get", stage |-> "participants", expense |-> e, user |-> u,
                     row |-> expense[e], participants |-> {}, debts |-> {}]
  <2>1. e \in DOMAIN expense /\ Moves(r, req)
    BY <1>2 DEF GetExpense, Moves, owed
  <2>2. req.kind = "get" /\ req.stage = "participants" /\ req.expense = e /\ req.row = expense[e]
    OBVIOUS
  <2> HIDE DEF req
  <2> QED
    BY <1>1, <2>1, <2>2
<1>3. ASSUME GetParticipants(r) \/ GetDebts(r)
      PROVE  /\ request[r] \in Getting /\ request[r].kind = "get"
             /\ request[r].expense \in DOMAIN expense
             /\ request[r].row = expense[request[r].expense]
             /\ request[r].stage # "participants" =>
                  request[r].participants = ParticipantsOf(request[r].expense)
  <2>1. request[r].kind = "get"
    BY <1>3 DEF GetParticipants, GetDebts
  <2> QED
    BY <1>0, <2>1, Kinds DEF Current
<1>4. CASE GetParticipants(r)
  <2> DEFINE req == [request[r] EXCEPT !.stage = "debts",
                                       !.participants = ParticipantsOf(request[r].expense)]
  <2>1. Moves(r, req)
    BY <1>4 DEF GetParticipants, Moves, owed, ParticipantsOf
  <2>2. /\ req.kind = "get" /\ req.expense = request[r].expense /\ req.row = request[r].row
        /\ req.stage = "debts" /\ req.participants = ParticipantsOf(request[r].expense)
    BY <1>3, <1>4 DEF Getting
  <2> HIDE DEF req
  <2> QED
    BY <1>1, <1>3, <1>4, <2>1, <2>2
<1>5. CASE GetDebts(r)
  <2> DEFINE req == [request[r] EXCEPT !.stage = "done",
                                       !.debts = DebtsOf(request[r].expense)]
  <2>1. Moves(r, req) /\ request[r].stage = "debts"
    BY <1>5 DEF GetDebts, Moves, owed, DebtsOf
  <2>2. /\ req.kind = "get" /\ req.expense = request[r].expense /\ req.row = request[r].row
        /\ req.stage = "done" /\ req.participants = request[r].participants
        /\ req.debts = DebtsOf(request[r].expense)
    BY <1>3, <1>5 DEF Getting
  <2> HIDE DEF req
  <2>3. Whole(req.expense, req.row, req.participants, req.debts)
    <3>1. PICK e : e = request[r].expense
      OBVIOUS
    <3>2. Whole(e, expense[e], ParticipantsOf(e), DebtsOf(e))
      BY <1>3, <1>5, <3>1 DEF WInv, CommittedWhole
    <3>3. /\ req.expense = e /\ req.row = expense[e]
          /\ req.participants = ParticipantsOf(e) /\ req.debts = DebtsOf(e)
      BY <1>3, <1>5, <2>1, <2>2, <3>1
    <3> QED
      BY <3>2, <3>3 DEF Whole
  <2> QED
    BY <1>1, <1>3, <1>5, <2>1, <2>2, <2>3
<1> QED
  BY <1>2, <1>4, <1>5

\* The commit adds a whole expense, under an id that nobody has read.
LEMMA CommitsKeepWhole ==
  ASSUME IInv, WInv, NEW r \in Requests, CommitExpense(r)
  PROVE  WInv'
<1> DEFINE input == request[r].input
           e == request[r].expense
           n == Len(input.participants)
           row == [group |-> input.group, total |-> input.total,
                   paidBy |-> UserOf[input.paidBy], createdBy |-> input.createdBy]
<1>0. TypeOK /\ RowsBelong /\ Written(r)
  BY DEF IInv, WInv
<1>1. /\ request[r].kind = "create" /\ request[r].stage = "rows" /\ request[r].done = n
  BY DEF CommitExpense
<1>2. Commits(r, e, row, request[r].participants, request[r].debts)
  BY CommitCommits
<1>3. input \in ValidInputs
  BY <1>0, <1>1, Kinds DEF Creating
<1>4. /\ request[r].participants = RowsUpTo(input, e, n)
      /\ request[r].debts = DebtsUpTo(input, e, n) /\ FitUpTo(input, n)
  BY <1>0, <1>1 DEF Written
<1>5. row.total = input.total /\ row.paidBy = UserOf[input.paidBy]
  OBVIOUS
<1> HIDE DEF row
<1>6. Whole(e, row, request[r].participants, request[r].debts)
  BY <1>3, <1>4, <1>5, CompleteIsWhole
<1> HIDE DEF input, e, n
<1>7. PICK participants, debts : participants = request[r].participants /\ debts = request[r].debts
  OBVIOUS
<1>8. /\ e \notin DOMAIN expense /\ resent' = resent
      /\ \A p \in participants : p.expense = e
      /\ \A d \in debts : d.expense = e
      /\ expense' = [f \in DOMAIN expense \cup {e} |-> IF f = e THEN row ELSE expense[f]]
      /\ participant' = participant \cup participants
      /\ debt' = debt \cup debts
      /\ request' = [request EXCEPT ![r] = Announcing(DebtNotices(debts))]
  BY <1>2, <1>7 DEF Commits, CommitExpense
<1>9. PICK f : f = e
  OBVIOUS
<1>10. /\ DOMAIN expense' = DOMAIN expense \cup {f} /\ expense'[f] = row
       /\ \A g \in DOMAIN expense : g # f /\ expense'[g] = expense[g]
  BY <1>8, <1>9
<1>11. /\ {p \in participant' : p.expense = f} = participants
       /\ {d \in debt' : d.expense = f} = debts
  <2>1. \A p \in participant \cup debt : p.expense # f
    BY <1>0, <1>8, <1>9 DEF RowsBelong
  <2> QED
    BY <1>8, <1>9, <2>1
<1>12. \A g : g # f => /\ {p \in participant' : p.expense = g} = ParticipantsOf(g)
                       /\ {d \in debt' : d.expense = g} = DebtsOf(g)
  BY <1>8, <1>9 DEF ParticipantsOf, DebtsOf
<1>13. CommittedWhole'
  <2> SUFFICES ASSUME NEW g \in DOMAIN expense'
               PROVE  Whole(g, expense[g], ParticipantsOf(g), DebtsOf(g))'
    BY DEF CommittedWhole
  <2>1. PICK x, xs, ds :
          /\ x = expense'[g] /\ xs = {p \in participant' : p.expense = g}
          /\ ds = {d \in debt' : d.expense = g}
    OBVIOUS
  <2>2. Whole(g, x, xs, ds)
    <3>1. CASE g = f
      BY <1>6, <1>7, <1>9, <1>10, <1>11, <2>1, <3>1
    <3>2. CASE g # f
      <4>1. g \in DOMAIN expense /\ expense'[g] = expense[g]
        BY <1>10, <3>2
      <4>2. Whole(g, expense[g], ParticipantsOf(g), DebtsOf(g))
        BY <4>1 DEF WInv, CommittedWhole
      <4> QED
        BY <1>12, <2>1, <3>2, <4>1, <4>2
    <3> QED
      BY <3>1, <3>2
  <2>3. Whole(g, x, xs, ds)'
    BY <1>8, <2>2, WholeStays
  <2> QED
    BY <2>1, <2>3 DEF Whole, ParticipantsOf, DebtsOf
<1>14. ASSUME NEW q \in Requests PROVE Written(q)' /\ Current(q)'
  <2>1. CASE q = r
    <3>1. PICK req : req = Announcing(DebtNotices(debts))
      OBVIOUS
    <3>2. request'[r] = req /\ req.kind \notin {"create", "get"}
      BY <1>0, <1>8, <3>1 DEF TypeOK, Announcing, Idle
    <3> QED
      BY <2>1, <3>2 DEF Written, Current
  <2>2. CASE q # r
    <3>1. PICK req : req = request[q]
      OBVIOUS
    <3>2. request'[q] = req
      BY <1>0, <1>8, <2>2, <3>1 DEF TypeOK
    <3>3. Written(q) /\ Current(q)
      BY DEF WInv
    <3>4. Written(q)'
      BY <3>1, <3>2, <3>3 DEF Written
    <3>5. ASSUME NEW g \in DOMAIN expense
          PROVE  /\ g \in DOMAIN expense' /\ expense'[g] = expense[g]
                 /\ ParticipantsOf(g)' = ParticipantsOf(g)
      BY <1>10, <1>12 DEF ParticipantsOf
    <3>6. Current(q)'
      BY <1>8, <3>1, <3>2, <3>3, <3>5, CurrentStays
    <3> QED
      BY <3>4, <3>6
  <2> QED
    BY <2>1, <2>2
<1> QED
  BY <1>13, <1>14 DEF WInv

\* A decision of a debt leaves its expense whole.
LEMMA RedoneKeeps ==
  ASSUME WInv, NEW d, NEW row, Redone(d, row)
  PROVE  WInv'
<1>1. /\ d \in debt /\ debt' = (debt \ {d}) \cup {row}
      /\ row.expense = d.expense /\ row.debtor = d.debtor /\ row.creditor = d.creditor
      /\ row.amount = d.amount \/ Adjusted(d, row.amount) \in resent'
      /\ resent \subseteq resent'
      /\ UNCHANGED <<expense, participant, request>>
  BY DEF Redone
<1>2. ASSUME NEW e \in DOMAIN expense
      PROVE  Whole(e, expense[e], ParticipantsOf(e), DebtsOf(e))'
  <2>1. PICK x, xs, ds, ds2 :
          /\ x = expense[e] /\ xs = ParticipantsOf(e) /\ ds = DebtsOf(e)
          /\ ds2 = {c \in debt' : c.expense = e}
    OBVIOUS
  <2>2. Whole(e, x, xs, ds)
    BY <2>1 DEF WInv, CommittedWhole
  <2>3. Whole(e, x, xs, ds)'
    BY <1>1, <2>2, WholeStays
  <2>4. Whole(e, x, xs, ds2)'
    <3>1. CASE d.expense # e
      BY <1>1, <2>1, <2>3, <3>1 DEF DebtsOf
    <3>2. CASE d.expense = e
      <4>1. d \in ds /\ ds2 = (ds \ {d}) \cup {row}
        BY <1>1, <2>1, <3>2 DEF DebtsOf
      <4>2. \A c, b \in ds : c.debtor = b.debtor => c = b
        BY <2>2 DEF Whole
      <4>3. \A c, b \in ds2 : c.debtor = b.debtor => c = b
        BY <1>1, <4>1, <4>2
      <4>4. {<<c.expense, c.debtor, c.creditor>> : c \in ds2}
              = {<<c.expense, c.debtor, c.creditor>> : c \in ds}
        BY <1>1, <4>1
      <4>5. \A c \in ds, p \in xs : p.user = c.debtor => Agreed(c, p.share)'
        BY <2>3 DEF Whole
      <4>6. \A p \in xs : p.user = row.debtor => Agreed(row, p.share)'
        BY <1>1, <4>1, <4>5 DEF Agreed, Adjusted
      <4>7. \A c \in ds2, p \in xs : p.user = c.debtor => Agreed(c, p.share)'
        BY <4>1, <4>5, <4>6
      <4> QED
        BY <2>3, <4>1, <4>3, <4>4, <4>7 DEF Whole
    <3> QED
      BY <3>1, <3>2
  <2>5. expense'[e] = x /\ ParticipantsOf(e)' = xs /\ DebtsOf(e)' = ds2
    BY <1>1, <2>1 DEF ParticipantsOf, DebtsOf
  <2> QED
    BY <2>4, <2>5 DEF Whole
<1>3. CommittedWhole'
  BY <1>1, <1>2 DEF CommittedWhole
<1>4. ASSUME NEW q \in Requests PROVE Written(q)' /\ Current(q)'
  <2>1. Written(q) /\ Current(q)
    BY DEF WInv
  <2>2. Current(q)'
    BY <1>1, <2>1, CurrentStays DEF ParticipantsOf
  <2> QED
    BY <1>1, <2>1, <2>2 DEF Written
<1> QED
  BY <1>3, <1>4 DEF WInv

LEMMA StillKeeps ==
  ASSUME WInv, UNCHANGED <<expense, participant, debt, resent, request>>
  PROVE  WInv'
<1>1. CommittedWhole'
  BY CommittedStays DEF WInv
<1>2. ASSUME NEW q \in Requests PROVE Written(q)' /\ Current(q)'
  <2>1. Written(q) /\ Current(q)
    BY DEF WInv
  <2>2. Current(q)'
    BY <2>1, CurrentStays DEF ParticipantsOf
  <2> QED
    BY <2>1, <2>2 DEF Written
<1> QED
  BY <1>1, <1>2 DEF WInv

LEMMA WholeStepByStep == IInv /\ WInv /\ [Next]_vars => WInv'
<1> SUFFICES ASSUME IInv, WInv, [Next]_vars PROVE WInv'
  OBVIOUS
<1>0. TypeOK
  BY DEF IInv
<1>1. CASE GroupStep
  <2>1. ASSUME NEW g \in Groups, NEW u \in Users, CreateGroup(g, u) PROVE WInv'
    BY <2>1, StillKeeps DEF CreateGroup, owed
  <2>2. ASSUME NEW r \in Requests, NEW g \in Groups, NEW owner \in Users, NEW u \in Users,
               AddMemberBegin(r, g, owner, u)
        PROVE  WInv'
    <3>1. PICK req : req = [kind |-> "addMember", group |-> g, user |-> u]
      OBVIOUS
    <3>2. Moves(r, req) /\ req.kind = "addMember"
      BY <2>2, <3>1 DEF AddMemberBegin, Moves, owed
    <3> QED
      BY <1>0, <3>2, OthersKeep
  <2>3. ASSUME NEW r \in Requests, AddMemberInsert(r) PROVE WInv'
    <3>1. Moves(r, Idle) /\ Idle.kind = "idle"
      BY <2>3 DEF AddMemberInsert, Moves, owed, Idle
    <3> QED
      BY <1>0, <3>1, OthersKeep
  <2> QED
    BY <1>1, <2>1, <2>2, <2>3 DEF GroupStep
<1>2. ASSUME NEW r \in Requests, Announce(r) \/ AnnounceFails(r) \/ Abandon(r) PROVE WInv'
  <2>1. PICK req : Moves(r, req) /\ req.kind \notin {"create", "get"}
    <3>1. CASE Abandon(r)
      <4>1. Moves(r, Idle) /\ Idle.kind = "idle"
        BY <3>1 DEF Abandon, Moves, owed, Idle
      <4> QED
        BY <4>1
    <3>2. CASE Announce(r) \/ AnnounceFails(r)
      <4>1. PICK notice \in Due(r) : Moves(r, Announcing(Due(r) \ {notice}))
        BY <3>2 DEF Announce, AnnounceFails, Moves, owed
      <4>2. Announcing(Due(r) \ {notice}).kind \notin {"create", "get"}
        BY DEF Announcing, Idle
      <4> QED
        BY <4>1, <4>2
    <3> QED
      BY <1>2, <3>1, <3>2
  <2> QED
    BY <1>0, <2>1, OthersKeep
<1>3. CASE CreateStep
  <2>1. PICK r \in Requests :
          \/ \E input \in Inputs : CreateBegin(r, input)
          \/ CheckPayer(r) \/ CheckParticipant(r) \/ InsertExpense(r)
          \/ InsertParticipant(r) \/ CommitExpense(r)
          \/ Announce(r) \/ AnnounceFails(r) \/ Abandon(r)
    BY <1>3 DEF CreateStep
  <2> QED
    BY <1>2, <2>1, FirstStepsKeep, InsertParticipantKeeps, CommitsKeepWhole
<1>4. CASE GetStep
  BY <1>4, GetsKeep DEF GetStep
<1>5. CASE UNCHANGED vars
  BY <1>5, StillKeeps DEF vars, owed
<1>6. CASE DebtStep
  BY <1>0, <1>6, DebtStepsRedo, RedoneKeeps
<1> QED
  BY <1>1, <1>3, <1>4, <1>5, <1>6 DEF Next

\* ExpensesAreWhole: for any bodies, in any spelling of the ids, and any interleaving,
\* the shares of a committed expense add up to its total, everyone but the payer owes his
\* share unless a review has set the amount, and what Get puts together from three
\* statements is such an expense, although debts are reviewed between them.
THEOREM ExpensesStayWhole == Spec => []ExpensesAreWhole
<1>1. Init => WInv
  <2> SUFFICES ASSUME Init PROVE WInv
    OBVIOUS
  <2>1. /\ DOMAIN expense = {}
        /\ \A r \in Requests : request[r].kind = "idle"
    BY DEF Init, Idle
  <2> QED
    BY <2>1 DEF WInv, CommittedWhole, Written, Current
<1>2. IInv /\ WInv => ExpensesAreWhole
  <2> SUFFICES ASSUME IInv, WInv PROVE ExpensesAreWhole
    OBVIOUS
  <2>1. \A row \in participant \cup debt : row.expense \in DOMAIN expense
    BY DEF IInv, RowsBelong
  <2>2. \A e \in DOMAIN expense : Whole(e, expense[e], ParticipantsOf(e), DebtsOf(e))
    BY DEF WInv, CommittedWhole
  <2>3. ASSUME NEW r \in Requests, request[r].kind = "get", request[r].stage = "done"
        PROVE  Whole(request[r].expense, request[r].row, request[r].participants,
                     request[r].debts)
    BY <2>3 DEF WInv, Current
  <2> QED
    BY <2>1, <2>2, <2>3 DEF ExpensesAreWhole
<1>3. Spec => []WInv
  BY <1>1, Always, WholeStepByStep, PTL DEF Spec
<1> QED
  BY <1>2, <1>3, Always, PTL
===============================================================================
