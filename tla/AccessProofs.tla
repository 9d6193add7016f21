----------------------------- MODULE AccessProofs ------------------------------
(***************************************************************************)
(* Theorems about what stands in front of the application: the one-time    *)
(* codes (Otp), for any number of overlapping calls, any limits and any    *)
(* number of codes; the rate limiter, for any number of clients, any limit *)
(* and any window; and the names of users (Usernames), the members added   *)
(* by name and the searches.                                               *)
(***************************************************************************)
EXTENDS Otp, RateLimiter, Usernames, FiniteSetTheorems, FunctionTheorems,
        SequenceTheorems, WellFoundedInduction, TLAPS

-------------------------------------------------------------------------------
(* Counting. *)

\* A part of a finite set is finite and has no more members.
LEMMA PartIsSmaller ==
  ASSUME NEW T, IsFiniteSet(T), NEW S \in SUBSET T
  PROVE  /\ IsFiniteSet(S)
         /\ Cardinality(S) \in Nat
         /\ Cardinality(T) \in Nat
         /\ Cardinality(S) <= Cardinality(T)
  BY FS_Subset, FS_CardinalityType

\* The rows that satisfy a condition are finitely many.
LEMMA RowsAreFinite ==
  ASSUME TypeOK, NEW S \in SUBSET DOMAIN code
  PROVE  IsFiniteSet(S) /\ Cardinality(S) \in Nat
<1>1. DOMAIN code = 1..Len(code) /\ Len(code) \in Nat
  BY DEF TypeOK
<1>2. IsFiniteSet(DOMAIN code)
  BY <1>1, FS_Interval
<1> QED
  BY <1>2, PartIsSmaller

\* The calls that hold a row are some of the calls.
LEMMA HoldersAreFew ==
  ASSUME NEW i
  PROVE  /\ Holders(i) \in SUBSET Guessers
         /\ IsFiniteSet(Holders(i))
         /\ Cardinality(Holders(i)) \in Nat
         /\ Cardinality(Guessers) \in Nat
         /\ Cardinality(Holders(i)) <= Cardinality(Guessers)
<1>1. Holders(i) \in SUBSET Guessers
  BY DEF Holders
<1> QED
  BY <1>1, PartIsSmaller, OtpAssumption

\* So are the senders at some stages.
LEMMA SendersAreFew ==
  ASSUME NEW stages
  PROVE  /\ At(stages) \in SUBSET Senders
         /\ IsFiniteSet(At(stages))
         /\ Cardinality(At(stages)) \in Nat
         /\ Cardinality(Senders) \in Nat
         /\ Cardinality(At(stages)) <= Cardinality(Senders)
<1>1. At(stages) \in SUBSET Senders
  BY DEF At
<1> QED
  BY <1>1, PartIsSmaller, OtpAssumption

-------------------------------------------------------------------------------
(* Types. *)

\* The table as a function from positions to rows.
LEMMA Table ==
  ASSUME TypeOK
  PROVE  /\ Len(code) \in Nat
         /\ DOMAIN code = 1..Len(code)
         /\ code \in [DOMAIN code -> Row]
  BY LenProperties DEF TypeOK

\* To update rows in place is to keep their number.
LEMMA RowsUpdated ==
  ASSUME TypeOK, NEW rows \in [DOMAIN code -> Row]
  PROVE  rows \in Seq(Row) /\ DOMAIN rows = DOMAIN code /\ Len(rows) = Len(code)
<1>1. DOMAIN code = 1..Len(code) /\ Len(code) \in Nat
  BY DEF TypeOK
<1>2. rows \in [1..Len(code) -> Row]
  BY <1>1
<1>3. rows \in Seq(Row) /\ Len(rows) = Len(code)
  BY <1>1, <1>2, SeqDef
<1> QED
  BY <1>1, <1>2, <1>3

\* Time touches nothing but the marks of time on a row.
LEMMA TimeMarks ==
  ASSUME TypeOK, Time
  PROVE  /\ code' \in [DOMAIN code -> Row]
         /\ \A i \in DOMAIN code :
              /\ code'[i].uses = code[i].uses
              /\ code'[i].attempts = code[i].attempts
              /\ code[i].expired => code'[i].expired
              /\ code'[i].recent => code[i].recent
         /\ UNCHANGED <<sender, guess>>
<1>1. PICK i \in DOMAIN code : CooldownEnds(i) \/ LeaveWindow(i) \/ Expire(i)
  BY DEF Time
<1> DEFINE cool == [code[i] EXCEPT !.cooling = FALSE]
           old == [code[i] EXCEPT !.recent = FALSE]
           dead == [code[i] EXCEPT !.expired = TRUE]
<1>2. \/ code' = [code EXCEPT ![i] = cool]
      \/ code' = [code EXCEPT ![i] = old]
      \/ code' = [code EXCEPT ![i] = dead]
  BY <1>1 DEF CooldownEnds, LeaveWindow, Expire
<1>3. code[i] \in Row
  BY Table
<1>4. cool \in Row /\ old \in Row /\ dead \in Row
  BY <1>3 DEF Row
<1>5. /\ cool.uses = code[i].uses /\ cool.attempts = code[i].attempts
      /\ cool.expired = code[i].expired /\ cool.recent = code[i].recent
      /\ old.uses = code[i].uses /\ old.attempts = code[i].attempts
      /\ old.expired = code[i].expired /\ old.recent = FALSE
      /\ dead.uses = code[i].uses /\ dead.attempts = code[i].attempts
      /\ dead.expired = TRUE /\ dead.recent = code[i].recent
  BY <1>3 DEF Row
<1>6. UNCHANGED <<sender, guess>>
  BY <1>1 DEF CooldownEnds, LeaveWindow, Expire
<1> HIDE DEF cool, old, dead
<1> QED
  BY <1>2, <1>4, <1>5, <1>6, Table

LEMMA InitTypeOK == Init => TypeOK
  BY DEF Init, TypeOK, Stages, Guess, NoGuess, Row

LEMMA NextTypeOK == TypeOK /\ [Next]_vars => TypeOK'
<1> SUFFICES ASSUME TypeOK, [Next]_vars PROVE TypeOK'
  OBVIOUS
<1>1. ASSUME NEW s \in Senders, Send(s) PROVE TypeOK'
  <2>1. CASE CheckCooldown(s)
    BY <2>1 DEF CheckCooldown, Stages, TypeOK
  <2>2. CASE CountRequests(s)
    BY <2>2 DEF CountRequests, Stages, TypeOK
  <2>3. CASE ExpireOld(s)
    <3>1. code' \in [DOMAIN code -> Row]
      BY <2>3, Table DEF ExpireOld, Row
    <3> QED
      BY <2>3, <3>1, RowsUpdated DEF ExpireOld, Stages, TypeOK
  <2>4. CASE CreateCode(s)
    <3>1. NewRow \in Row
      BY DEF NewRow, Row
    <3>2. code' \in Seq(Row) /\ DOMAIN code \subseteq DOMAIN code'
      BY <2>4, <3>1 DEF CreateCode, TypeOK
    <3> QED
      BY <2>4, <3>2 DEF CreateCode, Stages, TypeOK
  <2>5. CASE SenderFails(s)
    BY <2>5 DEF SenderFails, Stages, TypeOK
  <2> QED
    BY <1>1, <2>1, <2>2, <2>3, <2>4, <2>5 DEF Send
<1>2. ASSUME NEW g \in Guessers, Check(g) PROVE TypeOK'
  <2>1. ASSUME NEW right \in BOOLEAN, ReadCode(g, right) PROVE TypeOK'
    <3>1. PICK i \in Unspent : guess' = [guess EXCEPT ![g] = [code |-> i, right |-> right]]
      BY <2>1 DEF ReadCode
    <3>2. i \in DOMAIN code /\ i \in Nat
      BY DEF Unspent, TypeOK
    <3> QED
      BY <2>1, <3>1, <3>2 DEF ReadCode, Guess, TypeOK
  <2>2. CASE IncrementAttempt(g)
    <3> DEFINE j == guess[g].code
               row == [code[j] EXCEPT !.attempts = @ + 1]
    <3>1. j \in DOMAIN code
      BY <2>2 DEF IncrementAttempt, TypeOK
    <3>2. row \in Row /\ code' = [code EXCEPT ![j] = row]
      <4>1. code[j] \in Row
        BY <3>1, Table
      <4>2. row \in Row
        BY <4>1 DEF Row
      <4> QED
        BY <2>2, <4>2 DEF IncrementAttempt
    <3>3. code' \in [DOMAIN code -> Row]
      BY <3>2, Table
    <3> QED
      BY <2>2, <3>3, RowsUpdated DEF TypeOK, IncrementAttempt, Guess, NoGuess
  <2>3. CASE MarkVerified(g)
    <3> DEFINE j == guess[g].code
               row == [code[j] EXCEPT !.uses = @ + 1]
    <3>1. j \in DOMAIN code
      BY <2>3 DEF MarkVerified, TypeOK
    <3>2. row \in Row /\ code' = [code EXCEPT ![j] = row]
      <4>1. code[j] \in Row
        BY <3>1, Table
      <4>2. row \in Row
        BY <4>1 DEF Row
      <4> QED
        BY <2>3, <4>2 DEF MarkVerified
    <3>3. code' \in [DOMAIN code -> Row]
      BY <3>2, Table
    <3> QED
      BY <2>3, <3>3, RowsUpdated DEF TypeOK, MarkVerified, Guess, NoGuess
  <2>4. CASE GuesserFails(g)
    BY <2>4 DEF GuesserFails, Guess, NoGuess, TypeOK
  <2> QED
    BY <1>2, <2>1, <2>2, <2>3, <2>4 DEF Check
<1>3. CASE Time
  BY <1>3, TimeMarks, RowsUpdated DEF TypeOK
<1>4. CASE UNCHANGED vars
  BY <1>4 DEF vars, TypeOK
<1> QED
  BY <1>1, <1>2, <1>3, <1>4 DEF Next

\* Rows and calls keep their shape, and a call holds a row that exists.
THEOREM TypeCorrect == Spec => []TypeOK
  BY InitTypeOK, NextTypeOK, PTL DEF Spec

-------------------------------------------------------------------------------
(* What each step does to the rows and to the calls that hold them. *)

\* A sender adds a row, marks the unspent ones expired, or leaves the table alone.
LEMMA SendEffect ==
  ASSUME TypeOK, NEW s \in Senders, Send(s)
  PROVE  /\ UNCHANGED guess
         /\ \A i \in DOMAIN code :
              /\ i \in DOMAIN code'
              /\ code'[i].uses = code[i].uses
              /\ code'[i].attempts = code[i].attempts
              /\ code'[i].recent = code[i].recent
              /\ code[i].expired => code'[i].expired
         /\ \A i \in DOMAIN code' \ DOMAIN code :
              CreateCode(s) /\ i = Len(code) + 1 /\ code'[i] = NewRow
<1>1. CASE CreateCode(s)
  <2>1. NewRow \in Row
    BY DEF NewRow, Row
  <2>2. /\ DOMAIN code' = 1..(Len(code) + 1)
        /\ \A i \in DOMAIN code : code'[i] = code[i]
        /\ code'[Len(code) + 1] = NewRow
    BY <1>1, <2>1 DEF CreateCode, TypeOK
  <2> QED
    BY <1>1, <2>2, Table DEF CreateCode
<1>2. CASE ExpireOld(s)
  <2>1. code' = [i \in DOMAIN code |-> [code[i] EXCEPT !.expired = @ \/ i \in Unspent]]
    BY <1>2 DEF ExpireOld
  <2> QED
    BY <1>2, <2>1, Table DEF ExpireOld, Row
<1>3. CASE CheckCooldown(s) \/ CountRequests(s) \/ SenderFails(s)
  BY <1>3 DEF CheckCooldown, CountRequests, SenderFails
<1> QED
  BY <1>1, <1>2, <1>3 DEF Send

\* A call that reads a row counts among its holders from then on.
LEMMA ReadEffect ==
  ASSUME TypeOK, NEW g \in Guessers, NEW right \in BOOLEAN, ReadCode(g, right)
  PROVE  /\ UNCHANGED <<code, sender>>
         /\ \E j \in DOMAIN code :
              /\ code[j].uses = 0
              /\ code[j].attempts < MaxAttempts
              /\ guess[g] = NoGuess
              /\ guess' = [guess EXCEPT ![g] = [code |-> j, right |-> right]]
              /\ \A i \in DOMAIN code : i # j => Holders(i)' = Holders(i)
<1>1. PICK j \in Unspent :
        /\ guess[g] = NoGuess
        /\ code[j].attempts < MaxAttempts
        /\ guess' = [guess EXCEPT ![g] = [code |-> j, right |-> right]]
        /\ UNCHANGED <<code, sender>>
  BY DEF ReadCode
<1>2. ASSUME NEW i \in DOMAIN code, i # j PROVE Holders(i)' = Holders(i)
  <2>1. i # 0
    BY Table
  <2> QED
    BY <1>1, <1>2, <2>1 DEF Holders, NoGuess, TypeOK
<1> QED
  BY <1>1, <1>2 DEF Unspent

\* A call that ends holds its row no longer.
LEMMA EndEffect ==
  ASSUME TypeOK, NEW g \in Guessers, guess[g] # NoGuess,
         guess' = [guess EXCEPT ![g] = NoGuess]
  PROVE  /\ guess[g].code \in DOMAIN code
         /\ g \in Holders(guess[g].code)
         /\ \A i \in DOMAIN code :
              /\ Holders(i)' = Holders(i) \ {g}
              /\ i # guess[g].code => Holders(i)' = Holders(i)
<1>1. guess[g].code \in DOMAIN code
  BY DEF TypeOK
<1>2. ASSUME NEW i \in DOMAIN code PROVE Holders(i)' = Holders(i) \ {g}
  <2>1. i # 0
    BY Table
  <2> QED
    BY <2>1 DEF Holders, NoGuess, TypeOK
<1> QED
  BY <1>1, <1>2 DEF Holders

\* To end is to make the holders of that row one less.
LEMMA OneHolderLess ==
  ASSUME NEW i, NEW g \in Holders(i)
  PROVE  Cardinality(Holders(i) \ {g}) = Cardinality(Holders(i)) - 1
  BY HoldersAreFew, FS_RemoveElement

\* A wrong guess changes one number of one row.
LEMMA IncrementEffect ==
  ASSUME TypeOK, NEW g \in Guessers, IncrementAttempt(g)
  PROVE  /\ UNCHANGED sender
         /\ guess[g] # NoGuess
         /\ guess' = [guess EXCEPT ![g] = NoGuess]
         /\ DOMAIN code' = DOMAIN code
         /\ \A i \in DOMAIN code :
              /\ code'[i].uses = code[i].uses
              /\ code'[i].expired = code[i].expired
              /\ code'[i].recent = code[i].recent
              /\ code'[i].attempts =
                   IF i = guess[g].code THEN code[i].attempts + 1 ELSE code[i].attempts
<1> DEFINE j == guess[g].code
           row == [code[j] EXCEPT !.attempts = @ + 1]
<1>1. j \in DOMAIN code /\ code[j] \in Row
  BY Table DEF IncrementAttempt, TypeOK
<1>2. code' = [code EXCEPT ![j] = row]
  BY <1>1 DEF IncrementAttempt
<1>3. /\ row.uses = code[j].uses /\ row.expired = code[j].expired
      /\ row.recent = code[j].recent /\ row.attempts = code[j].attempts + 1
  BY <1>1 DEF Row
<1> QED
  BY <1>1, <1>2, <1>3, Table DEF IncrementAttempt

\* So does a right one.
LEMMA MarkEffect ==
  ASSUME TypeOK, NEW g \in Guessers, MarkVerified(g)
  PROVE  /\ UNCHANGED sender
         /\ guess[g] # NoGuess
         /\ guess' = [guess EXCEPT ![g] = NoGuess]
         /\ DOMAIN code' = DOMAIN code
         /\ \A i \in DOMAIN code :
              /\ code'[i].attempts = code[i].attempts
              /\ code'[i].expired = code[i].expired
              /\ code'[i].recent = code[i].recent
              /\ code'[i].uses =
                   IF i = guess[g].code THEN code[i].uses + 1 ELSE code[i].uses
<1> DEFINE j == guess[g].code
           row == [code[j] EXCEPT !.uses = @ + 1]
<1>1. j \in DOMAIN code /\ code[j] \in Row
  BY Table DEF MarkVerified, TypeOK
<1>2. code' = [code EXCEPT ![j] = row]
  BY <1>1 DEF MarkVerified
<1>3. /\ row.attempts = code[j].attempts /\ row.expired = code[j].expired
      /\ row.recent = code[j].recent /\ row.uses = code[j].uses + 1
  BY <1>1 DEF Row
<1> QED
  BY <1>1, <1>2, <1>3, Table DEF MarkVerified

-------------------------------------------------------------------------------
(* The limits. *)

\* A new row has no holder: nobody can have read it.
LEMMA NewRowIsUnread ==
  ASSUME TypeOK, NEW s \in Senders, CreateCode(s), NEW i, i = Len(code) + 1
  PROVE  Holders(i)' = {}
  BY Table DEF CreateCode, Holders, NoGuess, TypeOK

LEMMA NextAttempts == TypeOK /\ AttemptsBounded /\ [Next]_vars => AttemptsBounded'
<1> SUFFICES ASSUME TypeOK, AttemptsBounded, [Next]_vars, NEW i \in DOMAIN code'
             PROVE  code'[i].attempts + Cardinality(Holders(i)')
                      < MaxAttempts + Cardinality(Guessers)
  BY DEF AttemptsBounded
<1> DEFINE k == Cardinality(Guessers)
<1>a. k \in Nat /\ MaxAttempts \in Nat \ {0}
  BY HoldersAreFew, OtpAssumption
<1>b. Cardinality(Holders(i)) \in Nat /\ Cardinality(Holders(i)) <= k
  BY HoldersAreFew
<1>c. i \in DOMAIN code =>
        /\ code[i].attempts \in Nat
        /\ code[i].attempts + Cardinality(Holders(i)) < MaxAttempts + k
  BY Table DEF Row, AttemptsBounded
<1> HIDE DEF k
<1>1. ASSUME NEW s \in Senders, Send(s)
      PROVE  code'[i].attempts + Cardinality(Holders(i)') < MaxAttempts + k
  <2>1. CASE i \in DOMAIN code
    <3>1. Holders(i)' = Holders(i)
      BY <1>1, SendEffect DEF Holders
    <3> QED
      BY <2>1, <3>1, <1>1, <1>c, SendEffect
  <2>2. CASE i \notin DOMAIN code
    <3>1. code'[i] = NewRow /\ i = Len(code) + 1 /\ CreateCode(s)
      BY <2>2, <1>1, SendEffect
    <3>2. Holders(i)' = {}
      BY <3>1, NewRowIsUnread
    <3>3. code'[i].attempts = 0
      BY <3>1 DEF NewRow
    <3>4. Cardinality(Holders(i)') = 0
      BY <3>2, FS_EmptySet
    <3> QED
      BY <3>3, <3>4, <1>a
  <2> QED
    BY <2>1, <2>2
<1>2. ASSUME NEW g \in Guessers, NEW right \in BOOLEAN, ReadCode(g, right)
      PROVE  code'[i].attempts + Cardinality(Holders(i)') < MaxAttempts + k
  <2>1. PICK j \in DOMAIN code :
          /\ code[j].attempts < MaxAttempts
          /\ \A n \in DOMAIN code : n # j => Holders(n)' = Holders(n)
    BY <1>2, ReadEffect
  <2>2. i \in DOMAIN code /\ code' = code
    BY <1>2, ReadEffect
  <2>3. CASE i = j
    <3>1. Holders(i)' \in SUBSET Guessers
      BY DEF Holders
    <3>2. Cardinality(Holders(i)') \in Nat /\ Cardinality(Holders(i)') <= k
      BY <3>1, PartIsSmaller, OtpAssumption DEF k
    <3> QED
      BY <2>1, <2>2, <2>3, <3>2, <1>a, <1>c
  <2>4. CASE i # j
    BY <2>1, <2>2, <2>4, <1>c
  <2> QED
    BY <2>3, <2>4
<1>3. ASSUME NEW g \in Guessers, IncrementAttempt(g)
      PROVE  code'[i].attempts + Cardinality(Holders(i)') < MaxAttempts + k
  <2>1. i \in DOMAIN code
    BY <1>3, IncrementEffect
  <2>2. CASE i = guess[g].code
    <3>1. Cardinality(Holders(i)') = Cardinality(Holders(i)) - 1
      BY <1>3, <2>2, IncrementEffect, EndEffect, OneHolderLess
    <3> QED
      BY <1>3, <2>1, <2>2, <3>1, <1>a, <1>b, <1>c, IncrementEffect
  <2>3. CASE i # guess[g].code
    BY <1>3, <2>1, <2>3, <1>c, IncrementEffect, EndEffect
  <2> QED
    BY <2>2, <2>3
<1>4. ASSUME NEW g \in Guessers, MarkVerified(g) \/ GuesserFails(g)
      PROVE  code'[i].attempts + Cardinality(Holders(i)') < MaxAttempts + k
  <2>1. /\ guess[g] # NoGuess /\ guess' = [guess EXCEPT ![g] = NoGuess]
        /\ i \in DOMAIN code /\ code'[i].attempts = code[i].attempts
    BY <1>4, MarkEffect DEF GuesserFails
  <2>2. Holders(i)' \in SUBSET Holders(i)
    BY <2>1, EndEffect
  <2>3. Cardinality(Holders(i)') \in Nat /\ Cardinality(Holders(i)') <= Cardinality(Holders(i))
    BY <2>2, HoldersAreFew, PartIsSmaller
  <2> QED
    BY <2>1, <2>3, <1>a, <1>b, <1>c
<1>5. CASE Time
  <2>1. i \in DOMAIN code /\ code'[i].attempts = code[i].attempts /\ guess' = guess
    BY <1>5, TimeMarks
  <2>2. Holders(i)' = Holders(i)
    BY <2>1 DEF Holders
  <2> QED
    BY <2>1, <2>2, <1>c DEF k
<1>6. CASE UNCHANGED vars
  <2>1. Holders(i)' = Holders(i)
    BY <1>6 DEF vars, Holders
  <2> QED
    BY <1>6, <2>1, <1>c DEF vars, k
<1> QED
  BY <1>1, <1>2, <1>3, <1>4, <1>5, <1>6 DEF Next, Check, k

\* AttemptsBounded: a code takes fewer wrong guesses than MaxAttempts and the
\* number of overlapping calls together, although the attempts are read in one
\* statement and counted in another.
THEOREM GuessesAreBounded == Spec => []AttemptsBounded
<1>1. Init => AttemptsBounded
  BY DEF Init, AttemptsBounded
<1> QED
  BY <1>1, InitTypeOK, NextTypeOK, NextAttempts, PTL DEF Spec

\* What makes UsesBounded inductive: the calls that still hold a spent code
\* count as well.
SpentBounded ==
    \A i \in DOMAIN code :
      code[i].uses > 0 => code[i].uses + Cardinality(Holders(i)) <= Cardinality(Guessers)

LEMMA NextSpent == TypeOK /\ SpentBounded /\ [Next]_vars => SpentBounded'
<1> SUFFICES ASSUME TypeOK, SpentBounded, [Next]_vars, NEW i \in DOMAIN code',
                    code'[i].uses > 0
             PROVE  code'[i].uses + Cardinality(Holders(i)') <= Cardinality(Guessers)
  BY DEF SpentBounded
<1> DEFINE k == Cardinality(Guessers)
<1>a. k \in Nat /\ Cardinality(Holders(i)) \in Nat /\ Cardinality(Holders(i)) <= k
  BY HoldersAreFew
<1>b. i \in DOMAIN code =>
        /\ code[i].uses \in Nat
        /\ code[i].uses > 0 => code[i].uses + Cardinality(Holders(i)) <= k
  BY Table DEF Row, SpentBounded
<1> HIDE DEF k
<1>1. ASSUME NEW s \in Senders, Send(s)
      PROVE  code'[i].uses + Cardinality(Holders(i)') <= k
  <2>1. i \in DOMAIN code
    BY <1>1, SendEffect DEF NewRow
  <2>2. Holders(i)' = Holders(i)
    BY <1>1, SendEffect DEF Holders
  <2> QED
    BY <2>1, <2>2, <1>1, <1>b, SendEffect
<1>2. ASSUME NEW g \in Guessers, NEW right \in BOOLEAN, ReadCode(g, right)
      PROVE  code'[i].uses + Cardinality(Holders(i)') <= k
  BY <1>2, <1>b, ReadEffect
<1>3. ASSUME NEW g \in Guessers, MarkVerified(g)
      PROVE  code'[i].uses + Cardinality(Holders(i)') <= k
  <2>1. i \in DOMAIN code
    BY <1>3, MarkEffect
  <2>2. CASE i = guess[g].code
    <3>1. Cardinality(Holders(i)') = Cardinality(Holders(i)) - 1
      BY <1>3, <2>2, MarkEffect, EndEffect, OneHolderLess
    <3> QED
      BY <1>3, <2>1, <2>2, <3>1, <1>a, <1>b, MarkEffect
  <2>3. CASE i # guess[g].code
    BY <1>3, <2>1, <2>3, <1>b, MarkEffect, EndEffect
  <2> QED
    BY <2>2, <2>3
<1>4. ASSUME NEW g \in Guessers, IncrementAttempt(g) \/ GuesserFails(g)
      PROVE  code'[i].uses + Cardinality(Holders(i)') <= k
  <2>1. /\ guess[g] # NoGuess /\ guess' = [guess EXCEPT ![g] = NoGuess]
        /\ i \in DOMAIN code /\ code'[i].uses = code[i].uses
    BY <1>4, IncrementEffect DEF GuesserFails
  <2>2. Holders(i)' \in SUBSET Holders(i)
    BY <2>1, EndEffect
  <2>3. Cardinality(Holders(i)') \in Nat /\ Cardinality(Holders(i)') <= Cardinality(Holders(i))
    BY <2>2, HoldersAreFew, PartIsSmaller
  <2> QED
    BY <2>1, <2>3, <1>a, <1>b
<1>5. CASE Time
  <2>1. i \in DOMAIN code /\ code'[i].uses = code[i].uses /\ guess' = guess
    BY <1>5, TimeMarks
  <2>2. Holders(i)' = Holders(i)
    BY <2>1 DEF Holders
  <2> QED
    BY <2>1, <2>2, <1>b DEF k
<1>6. CASE UNCHANGED vars
  <2>1. Holders(i)' = Holders(i)
    BY <1>6 DEF vars, Holders
  <2> QED
    BY <1>6, <2>1, <1>b DEF vars, k
<1> QED
  BY <1>1, <1>2, <1>3, <1>4, <1>5, <1>6 DEF Next, Check, k

\* UsesBounded: MarkVerified has no condition, yet a code is accepted by no more
\* calls than overlap, so by one where they do not.
THEOREM UsesAreBounded == Spec => []UsesBounded
<1>1. Init => SpentBounded
  BY DEF Init, SpentBounded
<1>2. TypeOK /\ SpentBounded => UsesBounded
  <2> SUFFICES ASSUME TypeOK, SpentBounded, NEW i \in DOMAIN code
               PROVE  code[i].uses <= Cardinality(Guessers)
    BY DEF UsesBounded
  <2>1. code[i].uses \in Nat /\ Cardinality(Holders(i)) \in Nat /\ Cardinality(Guessers) \in Nat
    BY Table, HoldersAreFew DEF Row
  <2> QED
    BY <2>1 DEF SpentBounded
<1> QED
  BY <1>1, <1>2, InitTypeOK, NextTypeOK, NextSpent, PTL DEF Spec

-------------------------------------------------------------------------------
(* The number of codes. *)

\* Only senders make codes: all other steps can only spend or age them.
LEMMA OthersRetire ==
  ASSUME TypeOK, (\E g \in Guessers : Check(g)) \/ Time \/ UNCHANGED vars
  PROVE  sender' = sender /\ Live' \subseteq Live /\ Recent' \subseteq Recent
<1>1. ASSUME NEW g \in Guessers, Check(g)
      PROVE  sender' = sender /\ Live' \subseteq Live /\ Recent' \subseteq Recent
  <2>1. CASE (\E right \in BOOLEAN : ReadCode(g, right)) \/ GuesserFails(g)
    BY <2>1 DEF ReadCode, GuesserFails, Live, Unspent, Recent
  <2>2. CASE IncrementAttempt(g)
    BY <2>2, IncrementEffect DEF Live, Unspent, Recent
  <2>3. CASE MarkVerified(g)
    <3>1. \A i \in DOMAIN code : code'[i].uses = 0 => code[i].uses = 0
      BY <2>3, MarkEffect, Table DEF Row
    <3> QED
      BY <2>3, <3>1, MarkEffect DEF Live, Unspent, Recent
  <2> QED
    BY <1>1, <2>1, <2>2, <2>3 DEF Check
<1>2. CASE Time
  BY <1>2, TimeMarks, Table DEF Live, Unspent, Recent
<1>3. CASE UNCHANGED vars
  BY <1>3 DEF vars, Live, Unspent, Recent
<1> QED
  BY <1>1, <1>2, <1>3

\* A new code is one live and recent row more, and its sender is done.
LEMMA CreateCounts ==
  ASSUME TypeOK, NEW s \in Senders, CreateCode(s), NEW stages, "create" \in stages,
         "idle" \notin stages
  PROVE  /\ Live' = Live \cup {Len(code) + 1}
         /\ Recent' = Recent \cup {Len(code) + 1}
         /\ Len(code) + 1 \notin DOMAIN code
         /\ s \in At(stages) /\ At(stages)' = At(stages) \ {s}
<1>1. NewRow \in Row
  BY DEF NewRow, Row
<1>2. /\ DOMAIN code' = 1..(Len(code) + 1)
      /\ \A i \in DOMAIN code : code'[i] = code[i]
      /\ code'[Len(code) + 1] = NewRow
  BY <1>1 DEF CreateCode, TypeOK
<1>3. DOMAIN code' = DOMAIN code \cup {Len(code) + 1} /\ Len(code) + 1 \notin DOMAIN code
  BY <1>2, Table
<1>4. s \in At(stages) /\ At(stages)' = At(stages) \ {s}
  BY DEF CreateCode, At, TypeOK
<1> QED
  BY <1>2, <1>3, <1>4 DEF Live, Unspent, Recent, NewRow

\* What makes LiveCodesBounded inductive: a sender that has expired the old
\* codes counts as the code it is about to make.
LiveOrComing == Cardinality(Live) + Cardinality(At({"create"})) <= Cardinality(Senders)

\* What makes WindowBounded inductive: so does one that has passed the count.
RecentOrComing ==
    Cardinality(Recent) + Cardinality(At({"expire", "create"}))
      < RequestsPerWindow + Cardinality(Senders)

\* The counts that the two invariants compare, before a step and after it.
LEMMA Counts ==
  ASSUME TypeOK, TypeOK'
  PROVE  /\ IsFiniteSet(Live) /\ Cardinality(Live) \in Nat /\ Cardinality(Live') \in Nat
         /\ IsFiniteSet(Recent) /\ Cardinality(Recent) \in Nat /\ Cardinality(Recent') \in Nat
<1>1. Live \in SUBSET DOMAIN code /\ Recent \in SUBSET DOMAIN code
  BY DEF Live, Unspent, Recent
<1>2. IsFiniteSet(Live) /\ Cardinality(Live) \in Nat /\ IsFiniteSet(Recent) /\ Cardinality(Recent) \in Nat
  BY <1>1, RowsAreFinite
<1>3. TypeOK => IsFiniteSet(Live) /\ Cardinality(Live) \in Nat /\ IsFiniteSet(Recent) /\ Cardinality(Recent) \in Nat
  BY <1>2
<1>4. Len(code)' \in Nat /\ DOMAIN code' = 1..Len(code')
  BY LenProperties DEF TypeOK
<1>5. IsFiniteSet(DOMAIN code')
  BY <1>4, FS_Interval
<1>6. Live' \in SUBSET DOMAIN code' /\ Recent' \in SUBSET DOMAIN code'
  BY DEF Live, Unspent, Recent
<1> QED
  BY <1>2, <1>5, <1>6, PartIsSmaller

LEMMA NextLive == TypeOK /\ LiveOrComing /\ [Next]_vars => LiveOrComing'
<1> SUFFICES ASSUME TypeOK, LiveOrComing, [Next]_vars
             PROVE  Cardinality(Live') + Cardinality(At({"create"})') <= Cardinality(Senders)
  BY DEF LiveOrComing
<1> DEFINE k == Cardinality(Senders)
           coming == At({"create"})
<1>a. /\ IsFiniteSet(Live) /\ Cardinality(Live) \in Nat /\ Cardinality(Live') \in Nat
  BY NextTypeOK, Counts
<1>b. /\ IsFiniteSet(coming) /\ Cardinality(coming) \in Nat /\ k \in Nat
      /\ Cardinality(Live) + Cardinality(coming) <= k
  BY SendersAreFew DEF LiveOrComing
<1>c. /\ coming' \in SUBSET Senders /\ Cardinality(coming') \in Nat
      /\ Cardinality(coming') <= k
  <2>1. coming' \in SUBSET Senders
    BY DEF At
  <2> QED
    BY <2>1, PartIsSmaller, OtpAssumption
<1> HIDE DEF k, coming
<1>1. ASSUME NEW s \in Senders, Send(s) PROVE Cardinality(Live') + Cardinality(coming') <= k
  <2>1. CASE CreateCode(s)
    <3>1. Cardinality(Live') = Cardinality(Live) + 1
      <4>1. Live' = Live \cup {Len(code) + 1} /\ Len(code) + 1 \notin Live
        BY <2>1, CreateCounts DEF Live, Unspent
      <4> QED
        BY <4>1, <1>a, FS_AddElement
    <3>2. Cardinality(coming') = Cardinality(coming) - 1
      <4>1. s \in coming /\ coming' = coming \ {s}
        BY <2>1, CreateCounts DEF coming
      <4> QED
        BY <4>1, <1>b, FS_RemoveElement
    <3> QED
      BY <3>1, <3>2, <1>a, <1>b
  <2>2. CASE ExpireOld(s)
    <3>1. Live' = {}
      BY <2>2, Table DEF ExpireOld, Live, Unspent, Row
    <3>2. Cardinality(Live') = 0
      BY <3>1, FS_EmptySet
    <3> QED
      BY <3>2, <1>c, <1>b
  <2>3. CASE CheckCooldown(s) \/ CountRequests(s) \/ SenderFails(s)
    <3>1. Live' = Live
      BY <2>3 DEF CheckCooldown, CountRequests, SenderFails, Live, Unspent
    <3>2. coming' \in SUBSET coming
      BY <2>3 DEF CheckCooldown, CountRequests, SenderFails, At, TypeOK, coming
    <3>3. Cardinality(coming') <= Cardinality(coming)
      BY <3>2, <1>b, PartIsSmaller
    <3> QED
      BY <3>1, <3>3, <1>a, <1>b, <1>c
  <2> QED
    BY <1>1, <2>1, <2>2, <2>3 DEF Send
<1>2. ASSUME (\E g \in Guessers : Check(g)) \/ Time \/ UNCHANGED vars
      PROVE  Cardinality(Live') + Cardinality(coming') <= k
  <2>1. Live' \in SUBSET Live /\ coming' = coming
    BY <1>2, OthersRetire DEF At, coming
  <2>2. Cardinality(Live') <= Cardinality(Live)
    BY <2>1, <1>a, PartIsSmaller
  <2> QED
    BY <2>1, <2>2, <1>a, <1>b
<1>3. \/ \E s \in Senders : Send(s)
      \/ (\E g \in Guessers : Check(g)) \/ Time \/ UNCHANGED vars
  BY DEF Next
<1>4. Cardinality(Live') + Cardinality(coming') <= k
  BY <1>1, <1>2, <1>3
<1> QED
  BY <1>4 DEF k, coming

\* LiveCodesBounded: expiring the old codes and making a new one are two
\* statements, yet no more codes are alive than senders overlap.
THEOREM LiveCodesAreBounded == Spec => []LiveCodesBounded
<1>1. Init => LiveOrComing
  <2> SUFFICES ASSUME Init PROVE LiveOrComing
    OBVIOUS
  <2>1. Live = {} /\ At({"create"}) = {}
    BY DEF Init, Live, Unspent, At
  <2> QED
    BY <2>1, FS_EmptySet, SendersAreFew DEF LiveOrComing
<1>2. TypeOK /\ LiveOrComing => LiveCodesBounded
  <2> SUFFICES ASSUME TypeOK, LiveOrComing PROVE LiveCodesBounded
    OBVIOUS
  <2>1. Live \in SUBSET DOMAIN code
    BY DEF Live, Unspent
  <2> QED
    BY <2>1, RowsAreFinite, SendersAreFew DEF LiveOrComing, LiveCodesBounded
<1> QED
  BY <1>1, <1>2, InitTypeOK, NextTypeOK, NextLive, PTL DEF Spec

LEMMA NextRecent == TypeOK /\ RecentOrComing /\ [Next]_vars => RecentOrComing'
<1> SUFFICES ASSUME TypeOK, RecentOrComing, [Next]_vars
             PROVE  Cardinality(Recent') + Cardinality(At({"expire", "create"})')
                      < RequestsPerWindow + Cardinality(Senders)
  BY DEF RecentOrComing
<1> DEFINE k == Cardinality(Senders)
           coming == At({"expire", "create"})
<1>a. /\ IsFiniteSet(Recent) /\ Cardinality(Recent) \in Nat /\ Cardinality(Recent') \in Nat
  BY NextTypeOK, Counts
<1>b. /\ IsFiniteSet(coming) /\ Cardinality(coming) \in Nat /\ k \in Nat
      /\ RequestsPerWindow \in Nat
      /\ Cardinality(Recent) + Cardinality(coming) < RequestsPerWindow + k
  BY SendersAreFew, OtpAssumption DEF RecentOrComing
<1>c. /\ coming' \in SUBSET Senders /\ Cardinality(coming') \in Nat
      /\ Cardinality(coming') <= k
  <2>1. coming' \in SUBSET Senders
    BY DEF At
  <2> QED
    BY <2>1, PartIsSmaller, OtpAssumption
<1> HIDE DEF k, coming
<1>1. ASSUME NEW s \in Senders, Send(s)
      PROVE  Cardinality(Recent') + Cardinality(coming') < RequestsPerWindow + k
  <2>1. CASE CreateCode(s)
    <3>1. Cardinality(Recent') = Cardinality(Recent) + 1
      <4>1. Recent' = Recent \cup {Len(code) + 1} /\ Len(code) + 1 \notin Recent
        BY <2>1, CreateCounts DEF Recent
      <4> QED
        BY <4>1, <1>a, FS_AddElement
    <3>2. Cardinality(coming') = Cardinality(coming) - 1
      <4>1. s \in coming /\ coming' = coming \ {s}
        BY <2>1, CreateCounts DEF coming
      <4> QED
        BY <4>1, <1>b, FS_RemoveElement
    <3> QED
      BY <3>1, <3>2, <1>a, <1>b
  <2>2. CASE CountRequests(s) /\ ~(Cardinality(Recent) >= RequestsPerWindow)
    <3>1. Recent' = Recent
      BY <2>2 DEF CountRequests, Recent
    <3> QED
      BY <2>2, <3>1, <1>a, <1>b, <1>c
  <2>3. CASE CountRequests(s) /\ Cardinality(Recent) >= RequestsPerWindow
    <3>1. Recent' = Recent /\ coming' = coming
      BY <2>3 DEF CountRequests, Recent, At, TypeOK, coming
    <3> QED
      BY <3>1, <1>b
  <2>4. CASE ExpireOld(s)
    <3>1. Recent' = Recent
      BY <2>4, Table DEF ExpireOld, Recent, Row
    <3>2. coming' = coming
      BY <2>4 DEF ExpireOld, At, TypeOK, coming
    <3> QED
      BY <3>1, <3>2, <1>b
  <2>5. CASE CheckCooldown(s) \/ SenderFails(s)
    <3>1. Recent' = Recent
      BY <2>5 DEF CheckCooldown, SenderFails, Recent
    <3>2. coming' \in SUBSET coming
      BY <2>5 DEF CheckCooldown, SenderFails, At, TypeOK, coming
    <3>3. Cardinality(coming') <= Cardinality(coming)
      BY <3>2, <1>b, PartIsSmaller
    <3> QED
      BY <3>1, <3>3, <1>a, <1>b, <1>c
  <2> QED
    BY <1>1, <2>1, <2>2, <2>3, <2>4, <2>5 DEF Send
<1>2. ASSUME (\E g \in Guessers : Check(g)) \/ Time \/ UNCHANGED vars
      PROVE  Cardinality(Recent') + Cardinality(coming') < RequestsPerWindow + k
  <2>1. Recent' \in SUBSET Recent /\ coming' = coming
    BY <1>2, OthersRetire DEF At, coming
  <2>2. Cardinality(Recent') <= Cardinality(Recent)
    BY <2>1, <1>a, PartIsSmaller
  <2> QED
    BY <2>1, <2>2, <1>a, <1>b
<1>3. \/ \E s \in Senders : Send(s)
      \/ (\E g \in Guessers : Check(g)) \/ Time \/ UNCHANGED vars
  BY DEF Next
<1>4. Cardinality(Recent') + Cardinality(coming') < RequestsPerWindow + k
  BY <1>1, <1>2, <1>3
<1> QED
  BY <1>4 DEF k, coming

\* WindowBounded: the requests of a window are counted in one statement and made
\* in another, yet they pass the limit by less than the number of senders.
THEOREM RequestsAreBounded == Spec => []WindowBounded
<1>1. Init => RecentOrComing
  <2> SUFFICES ASSUME Init PROVE RecentOrComing
    OBVIOUS
  <2>1. Recent = {} /\ At({"expire", "create"}) = {}
    BY DEF Init, Recent, At
  <2> QED
    BY <2>1, FS_EmptySet, SendersAreFew, OtpAssumption DEF RecentOrComing
<1>2. TypeOK /\ RecentOrComing => WindowBounded
  <2> SUFFICES ASSUME TypeOK, RecentOrComing PROVE WindowBounded
    OBVIOUS
  <2>1. Recent \in SUBSET DOMAIN code
    BY DEF Recent
  <2> QED
    BY <2>1, RowsAreFinite, SendersAreFew, OtpAssumption DEF RecentOrComing, WindowBounded
<1> QED
  BY <1>1, <1>2, InitTypeOK, NextTypeOK, NextRecent, PTL DEF Spec

-------------------------------------------------------------------------------
(* Replaced codes. *)

\* What makes ReplacedCodesStayDead inductive: every live code was made after the
\* last time the old ones were expired, by senders that had expired them before,
\* and each of these makes one.
NewestLive ==
    \A i \in Live : Len(code) - i + Cardinality(At({"create"})) < Cardinality(Senders)

LEMMA NextNewest == TypeOK /\ NewestLive /\ [Next]_vars => NewestLive'
<1> SUFFICES ASSUME TypeOK, NewestLive, [Next]_vars,
                    NEW i \in Live'
             PROVE  Len(code') - i + Cardinality(At({"create"})') < Cardinality(Senders)
  BY DEF NewestLive
<1> DEFINE k == Cardinality(Senders)
           coming == At({"create"})
<1>a. /\ IsFiniteSet(coming) /\ Cardinality(coming) \in Nat /\ k \in Nat
      /\ Cardinality(coming) <= k
  <2>1. coming \in SUBSET Senders
    BY DEF At
  <2> QED
    BY <2>1, SendersAreFew, PartIsSmaller, OtpAssumption
<1>b. /\ coming' \in SUBSET Senders /\ Cardinality(coming') \in Nat
  <2>1. coming' \in SUBSET Senders
    BY DEF At
  <2> QED
    BY <2>1, PartIsSmaller, OtpAssumption
<1>c. /\ Len(code) \in Nat /\ Len(code') \in Nat /\ Live \subseteq Nat
      /\ \A j \in Live : Len(code) - j + Cardinality(coming) < k
  <2>1. TypeOK'
    BY NextTypeOK
  <2>2. /\ Len(code) \in Nat /\ Len(code') \in Nat
        /\ DOMAIN code = 1..Len(code)
    BY <2>1, LenProperties DEF TypeOK
  <2> QED
    BY <2>2 DEF NewestLive, Live, Unspent
<1> HIDE DEF k, coming
<1>1. ASSUME NEW s \in Senders, Send(s)
      PROVE  Len(code') - i + Cardinality(coming') < k
  <2>1. CASE CreateCode(s)
    <3>1. /\ Live' = Live \cup {Len(code) + 1}
          /\ s \in coming /\ coming' = coming \ {s}
      BY <2>1, CreateCounts DEF coming
    <3>2. Cardinality(coming') = Cardinality(coming) - 1
      BY <3>1, <1>a, FS_RemoveElement
    <3>3. Len(code') = Len(code) + 1
      BY <2>1 DEF CreateCode, TypeOK, NewRow, Row
    <3>4. CASE i = Len(code) + 1
      BY <3>2, <3>3, <3>4, <1>a, <1>c
    <3>5. CASE i \in Live
      BY <3>2, <3>3, <3>5, <1>a, <1>c
    <3> QED
      BY <3>1, <3>4, <3>5
  <2>2. CASE ExpireOld(s)
    <3>1. Live' = {}
      BY <2>2, Table DEF ExpireOld, Live, Unspent, Row
    <3> QED
      BY <3>1
  <2>3. CASE CheckCooldown(s) \/ CountRequests(s) \/ SenderFails(s)
    <3>1. Live' = Live /\ code' = code
      BY <2>3 DEF CheckCooldown, CountRequests, SenderFails, Live, Unspent
    <3>2. coming' \in SUBSET coming
      BY <2>3 DEF CheckCooldown, CountRequests, SenderFails, At, TypeOK, coming
    <3>3. Cardinality(coming') <= Cardinality(coming)
      BY <3>2, <1>a, PartIsSmaller
    <3> QED
      BY <3>1, <3>3, <1>a, <1>b, <1>c
  <2> QED
    BY <1>1, <2>1, <2>2, <2>3 DEF Send
<1>2. ASSUME (\E g \in Guessers : Check(g)) \/ Time \/ UNCHANGED vars
      PROVE  Len(code') - i + Cardinality(coming') < k
  <2>1. Live' \subseteq Live /\ coming' = coming
    BY <1>2, OthersRetire DEF At, coming
  <2>2. Len(code') = Len(code)
    <3>1. ASSUME NEW g \in Guessers, Check(g) PROVE DOMAIN code' = DOMAIN code
      BY <3>1, ReadEffect, IncrementEffect, MarkEffect DEF Check, GuesserFails
    <3>2. DOMAIN code' = DOMAIN code
      BY <1>2, <3>1, TimeMarks DEF vars
    <3>3. code' \in Seq(Row) /\ code \in Seq(Row)
      BY NextTypeOK DEF TypeOK
    <3> QED
      BY <3>2, <3>3, LenProperties
  <2> QED
    BY <2>1, <2>2, <1>c
<1>3. Len(code') - i + Cardinality(coming') < k
  BY <1>1, <1>2 DEF Next
<1> QED
  BY <1>3 DEF k, coming

\* ReplacedCodesStayDead: no call ever reads a code that as many newer ones have
\* replaced as senders overlap.
THEOREM ReplacedCodesAreDead == Spec => ReplacedCodesStayDead
<1>1. Init => NewestLive
  BY DEF Init, NewestLive, Live, Unspent
<1>2. TypeOK /\ NewestLive /\ [Next]_vars =>
        [\A g \in Guessers, i \in DOMAIN code :
           (guess[g] = NoGuess /\ guess'[g].code = i)
             => Len(code) - i < Cardinality(Senders)]_vars
  <2> SUFFICES ASSUME TypeOK, NewestLive, [Next]_vars, ~UNCHANGED vars,
                      NEW g \in Guessers, NEW i \in DOMAIN code,
                      guess[g] = NoGuess, guess'[g].code = i
               PROVE  Len(code) - i < Cardinality(Senders)
    OBVIOUS
  <2>1. i # 0 /\ guess'[g].code # guess[g].code
    BY Table DEF NoGuess
  <2>2. PICK h \in Guessers : Check(h)
    BY <2>1, SendEffect, TimeMarks DEF Next
  <2>3. PICK right \in BOOLEAN : ReadCode(h, right)
    BY <2>1, <2>2 DEF Check, IncrementAttempt, MarkVerified, GuesserFails, NoGuess, TypeOK
  <2>4. PICK j \in Unspent : /\ ~code[j].expired
                             /\ guess' = [guess EXCEPT ![h] = [code |-> j, right |-> right]]
    BY <2>3 DEF ReadCode
  <2>5. j = i
    BY <2>1, <2>4 DEF TypeOK
  <2>6. Len(code) - i + Cardinality(At({"create"})) < Cardinality(Senders)
    BY <2>4, <2>5 DEF NewestLive, Live
  <2>7. /\ Cardinality(At({"create"})) \in Nat
        /\ Cardinality(Senders) \in Nat
        /\ Len(code) \in Nat /\ i \in Nat
    <3>1. DOMAIN code = 1..Len(code) /\ Len(code) \in Nat
      BY LenProperties DEF TypeOK
    <3> QED
      BY <3>1, SendersAreFew
  <2> QED
    BY <2>6, <2>7
<1> QED
  BY <1>1, <1>2, InitTypeOK, NextTypeOK, NextNewest, PTL DEF Spec, ReplacedCodesStayDead

-------------------------------------------------------------------------------
(* The rate limiter. *)

\* The places of a log at which a time of a set is written.
Places(log, times) == {i \in DOMAIN log : log[i] \in times}

From(t) == {s \in Nat : s >= t}

LEMMA PlacesAreFinite ==
  ASSUME NEW log \in Seq(Nat), NEW times
  PROVE  IsFiniteSet(Places(log, times)) /\ Cardinality(Places(log, times)) \in Nat
<1>1. DOMAIN log = 1..Len(log) /\ Len(log) \in Nat
  OBVIOUS
<1>2. IsFiniteSet(DOMAIN log)
  BY <1>1, FS_Interval
<1>3. Places(log, times) \subseteq DOMAIN log
  BY DEF Places
<1> QED
  BY <1>2, <1>3, FS_Subset, FS_CardinalityType

\* More times, more places.
LEMMA MoreTimes ==
  ASSUME NEW log \in Seq(Nat), NEW times, NEW more, \A t \in times \cap Nat : t \in more
  PROVE  Cardinality(Places(log, times)) <= Cardinality(Places(log, more))
<1>1. Places(log, times) \subseteq Places(log, more)
  BY DEF Places
<1> QED
  BY <1>1, PlacesAreFinite, FS_Subset

\* Two sets of times that cover a third have at least its places between them.
LEMMA TimesAddUp ==
  ASSUME NEW log \in Seq(Nat), NEW times, NEW some, NEW rest,
         \A i \in DOMAIN log : log[i] \in times => log[i] \in some \/ log[i] \in rest
  PROVE  Cardinality(Places(log, times))
           <= Cardinality(Places(log, some)) + Cardinality(Places(log, rest))
<1> DEFINE both == Places(log, some) \cup Places(log, rest)
<1>1. Places(log, times) \subseteq both
  BY DEF Places
<1>2. /\ IsFiniteSet(Places(log, some)) /\ Cardinality(Places(log, some)) \in Nat
      /\ IsFiniteSet(Places(log, rest)) /\ Cardinality(Places(log, rest)) \in Nat
      /\ Cardinality(Places(log, times)) \in Nat
  BY PlacesAreFinite
<1>3. /\ IsFiniteSet(Places(log, some) \cap Places(log, rest))
      /\ Cardinality(Places(log, some) \cap Places(log, rest)) \in Nat
  BY <1>2, FS_Intersection, FS_CardinalityType
<1>4. /\ IsFiniteSet(both)
      /\ Cardinality(both) = Cardinality(Places(log, some)) + Cardinality(Places(log, rest))
                              - Cardinality(Places(log, some) \cap Places(log, rest))
  BY <1>2, FS_Union
<1>5. Cardinality(Places(log, times)) <= Cardinality(both)
  BY <1>1, <1>4, FS_Subset
<1> HIDE DEF both
<1> QED
  BY <1>2, <1>3, <1>4, <1>5

\* One more time is written.
LEMMA OneMoreTime ==
  ASSUME NEW log \in Seq(Nat), NEW t \in Nat, NEW times
  PROVE  /\ Append(log, t) \in Seq(Nat)
         /\ t \notin times => Cardinality(Places(Append(log, t), times)) = Cardinality(Places(log, times))
         /\ t \in times => Cardinality(Places(Append(log, t), times)) = Cardinality(Places(log, times)) + 1
<1> DEFINE n == Len(log) + 1
           new == Append(log, t)
<1>1. /\ DOMAIN log = 1..Len(log) /\ Len(log) \in Nat
      /\ new \in Seq(Nat) /\ DOMAIN new = 1..n
      /\ \A i \in DOMAIN log : new[i] = log[i]
      /\ new[n] = t
  OBVIOUS
<1>2. DOMAIN new = DOMAIN log \cup {n} /\ n \notin DOMAIN log
  BY <1>1
<1> HIDE DEF n, new
<1>3. CASE t \notin times
  <2>1. Places(new, times) = Places(log, times)
    BY <1>1, <1>2, <1>3 DEF Places
  <2> QED
    BY <1>1, <1>3, <2>1 DEF new
<1>4. CASE t \in times
  <2>1. Places(new, times) = Places(log, times) \cup {n} /\ n \notin Places(log, times)
    BY <1>1, <1>2, <1>4 DEF Places
  <2>2. Cardinality(Places(new, times)) = Cardinality(Places(log, times)) + 1
    BY <2>1, PlacesAreFinite, FS_AddElement
  <2> QED
    BY <1>1, <1>4, <2>2 DEF new
<1> QED
  BY <1>3, <1>4

Times(k, times) == Cardinality(Places(admitted[k], times))

LimiterTypeOK ==
    /\ maxRequests \in Limits /\ maxRequests \in Int
    /\ now \in Nat
    /\ admitted \in [Keys -> Seq(Nat)]
    /\ DOMAIN entries \subseteq Keys
    /\ \A k \in DOMAIN entries : entries[k] \in [count : Nat, resetAt : Int]
    /\ answer \in [key : Keys \cup {"none"}, at : Nat, allowed : BOOLEAN]

\* A key's window: it is counted rightly, nothing passed after its end, and as
\* much as one window allows in a window's length before its beginning.
WindowFits(k, entry) ==
    LET opened == entry.resetAt - window
    IN  /\ opened \in 0..now
        /\ entry.count \in 1..maxRequests
        /\ Times(k, From(opened)) = entry.count
        /\ Times(k, (opened - window + 1)..(opened - 1)) <= maxRequests
        /\ \A i \in DOMAIN admitted[k] : admitted[k][i] < entry.resetAt

\* A key with no window: what passed did so earlier, and no more of it within the
\* last window's length than one window allows.
NoWindow(k) ==
    /\ \A t \in Int : t > now - window => Times(k, From(t)) <= maxRequests
    /\ \A i \in DOMAIN admitted[k] : admitted[k][i] < now

KeyFits(k) ==
    IF k \in DOMAIN entries THEN WindowFits(k, entries[k]) ELSE NoWindow(k)

StretchesFit(k) == \A t \in Nat : Times(k, t..(t + window - 1)) <= 2 * maxRequests

RefusalFits ==
    ~answer.allowed =>
      /\ answer.key \in Keys
      /\ Times(answer.key, (answer.at - window + 1)..answer.at) >= maxRequests

LimiterInv ==
    /\ LimiterTypeOK
    /\ \A k \in Keys : \A i \in DOMAIN admitted[k] : admitted[k][i] <= now
    /\ maxRequests > 0 => \A k \in Keys : KeyFits(k) /\ StretchesFit(k)
    /\ RefusalFits

LEMMA InitLimiter == LimiterInit => LimiterInv
<1> SUFFICES ASSUME LimiterInit PROVE LimiterInv
  OBVIOUS
<1>1. LimiterTypeOK
  BY RateLimiterAssumption DEF LimiterInit, LimiterTypeOK, NoAnswer
<1>2. ASSUME NEW k \in Keys, NEW times
      PROVE  Times(k, times) = 0
  <2>1. Places(admitted[k], times) = {}
    BY DEF LimiterInit, Places
  <2> QED
    BY <2>1, FS_EmptySet DEF Times
<1>3. maxRequests > 0 => \A k \in Keys : KeyFits(k) /\ StretchesFit(k)
  BY <1>1, <1>2 DEF LimiterInit, KeyFits, NoWindow, StretchesFit, LimiterTypeOK
<1> QED
  BY <1>1, <1>3 DEF LimiterInv, LimiterInit, RefusalFits, NoAnswer

\* The window of a key that is over can be forgotten, at this time and later.
LEMMA WindowCloses ==
  ASSUME LimiterTypeOK, NEW k \in Keys, NEW entry \in [count : Nat, resetAt : Int],
         WindowFits(k, entry), entry.resetAt <= now
  PROVE  NoWindow(k)
<1> DEFINE log == admitted[k]
           opened == entry.resetAt - window
<1>1. log \in Seq(Nat) /\ now \in Nat /\ window \in Nat \ {0} /\ entry.resetAt \in Int
      /\ maxRequests \in Int /\ entry.count \in 1..maxRequests
  BY RateLimiterAssumption DEF LimiterTypeOK, WindowFits
<1>2. ASSUME NEW t \in Int, t > now - window
      PROVE  Times(k, From(t)) <= maxRequests
  <2>1. \A s \in From(t) \cap Nat : s \in From(opened)
    BY <1>1, <1>2 DEF From
  <2>2. PICK a \in Nat, b \in Nat : /\ a = Cardinality(Places(log, From(t)))
                                    /\ b = Cardinality(Places(log, From(opened)))
                                    /\ a <= b
    BY <1>1, <2>1, MoreTimes, PlacesAreFinite
  <2>3. b = entry.count
    BY <2>2 DEF WindowFits, Times
  <2> QED
    BY <1>1, <2>2, <2>3 DEF Times
<1>4. \A i \in DOMAIN log : log[i] < now
  <2> TAKE i \in DOMAIN log
  <2>1. \A j \in DOMAIN admitted[k] : admitted[k][j] < entry.resetAt
    BY DEF WindowFits
  <2>2. PICK t : t = log[i]
    OBVIOUS
  <2>3. t \in Nat
    BY <1>1, <2>2
  <2>4. t < entry.resetAt
    BY <2>1, <2>2
  <2> QED
    BY <1>1, <2>2, <2>3, <2>4
<1> QED
  BY <1>2, <1>4 DEF NoWindow

\* What allow finds in the map once it has been cleaned.
LEMMA CleanedFits ==
  ASSUME LimiterInv, maxRequests > 0, NEW k \in Keys
  PROVE  IF k \in DOMAIN Cleaned
         THEN /\ Cleaned[k] \in [count : Nat, resetAt : Int]
              /\ WindowFits(k, Cleaned[k]) /\ now < Cleaned[k].resetAt
         ELSE NoWindow(k)
<1>1. LimiterTypeOK /\ KeyFits(k)
  BY DEF LimiterInv
<1>2. CASE k \in DOMAIN Cleaned
  BY <1>1, <1>2 DEF Cleaned, KeyFits, LimiterTypeOK, Over
<1>3. CASE k \notin DOMAIN Cleaned
  BY <1>1, <1>3, WindowCloses DEF Cleaned, KeyFits, LimiterTypeOK, Over
<1> QED
  BY <1>2, <1>3

\* The end of the stretches: with a window open that fits, any stretch that takes
\* in the present is covered by the window and the length before it.
LEMMA StretchesStayFit ==
  ASSUME LimiterInv, maxRequests > 0, NEW k \in Keys,
         NEW entry \in [count : Nat, resetAt : Int],
         admitted' = [admitted EXCEPT ![k] = Append(@, now)], maxRequests' = maxRequests, now' = now,
         WindowFits(k, entry)', now < entry.resetAt
  PROVE  StretchesFit(k)'
<1> DEFINE opened == entry.resetAt - window
<1>1. /\ now \in Nat /\ window \in Nat \ {0} /\ entry.resetAt \in Int /\ entry.count \in 1..maxRequests
      /\ maxRequests \in Int
      /\ StretchesFit(k) /\ admitted[k] \in Seq(Nat)
      /\ admitted'[k] = Append(admitted[k], now) /\ opened \in 0..now
  BY RateLimiterAssumption DEF LimiterInv, LimiterTypeOK, WindowFits
<1>2. PICK log, new : log = admitted[k] /\ new = admitted'[k]
  OBVIOUS
<1>3. log \in Seq(Nat) /\ new = Append(log, now) /\ new \in Seq(Nat)
  BY <1>1, <1>2, OneMoreTime
<1>4. /\ Cardinality(Places(new, From(opened))) = entry.count
      /\ Cardinality(Places(new, (opened - window + 1)..(opened - 1))) <= maxRequests
  BY <1>2 DEF WindowFits, Times
<1> SUFFICES ASSUME NEW t \in Nat
             PROVE  Cardinality(Places(new, t..(t + window - 1))) <= 2 * maxRequests
  BY <1>1, <1>2 DEF StretchesFit, Times
<1>5. CASE now \in t..(t + window - 1)
  <2>1. \A s \in Nat : s \in t..(t + window - 1) =>
          s \in From(opened) \/ s \in (opened - window + 1)..(opened - 1)
    BY <1>1, <1>5 DEF From
  <2>2. \A i \in DOMAIN new : new[i] \in Nat
    BY <1>3
  <2>3. Cardinality(Places(new, t..(t + window - 1)))
          <= Cardinality(Places(new, From(opened)))
               + Cardinality(Places(new, (opened - window + 1)..(opened - 1)))
    BY <1>3, <2>1, <2>2, TimesAddUp
  <2>4. PICK a \in Nat, b \in Nat, c \in Nat :
          /\ a = Cardinality(Places(new, t..(t + window - 1)))
          /\ b = Cardinality(Places(new, From(opened)))
          /\ c = Cardinality(Places(new, (opened - window + 1)..(opened - 1)))
    BY <1>3, PlacesAreFinite
  <2> HIDE DEF opened
  <2> QED
    BY <1>1, <1>4, <2>3, <2>4
<1>6. CASE now \notin t..(t + window - 1)
  <2>1. Cardinality(Places(new, t..(t + window - 1))) = Cardinality(Places(log, t..(t + window - 1)))
    BY <1>1, <1>3, <1>6, OneMoreTime
  <2> QED
    BY <1>1, <1>2, <2>1 DEF StretchesFit, Times
<1> QED
  BY <1>5, <1>6

\* A request passes.
LEMMA AdmitKeeps ==
  ASSUME LimiterInv, maxRequests > 0, NEW k \in Keys,
         NEW entry \in [count : Nat, resetAt : Int], Admit(k, entry),
         WindowFits(k, entry)', now < entry.resetAt
  PROVE  LimiterInv'
<1>1. /\ entries' = Keep(k, entry) /\ admitted' = [admitted EXCEPT ![k] = Append(@, now)]
      /\ answer' = [key |-> k, at |-> now, allowed |-> TRUE]
      /\ maxRequests' = maxRequests /\ now' = now
      /\ LimiterTypeOK
  BY DEF Admit, LimiterInv
<1>2. /\ Append(admitted[k], now) \in Seq(Nat)
      /\ DOMAIN Append(admitted[k], now) = DOMAIN admitted[k] \cup {Len(admitted[k]) + 1}
      /\ \A i \in DOMAIN admitted[k] : Append(admitted[k], now)[i] = admitted[k][i]
      /\ Append(admitted[k], now)[Len(admitted[k]) + 1] = now
  BY <1>1 DEF LimiterTypeOK
<1>3. \A j \in Keys : admitted'[j] = IF j = k THEN Append(admitted[k], now) ELSE admitted[j]
  BY <1>1 DEF LimiterTypeOK
<1>4. DOMAIN entries' = DOMAIN Cleaned \cup {k} /\ entries'[k] = entry
      /\ \A j \in DOMAIN Cleaned \ {k} : entries'[j] = Cleaned[j]
      /\ DOMAIN Cleaned \subseteq Keys
  BY <1>1 DEF Keep, Cleaned, LimiterTypeOK
<1>5. \A j \in DOMAIN Cleaned : Cleaned[j] \in [count : Nat, resetAt : Int]
  BY <1>4, CleanedFits
<1>6. LimiterTypeOK'
  BY <1>1, <1>2, <1>4, <1>5 DEF LimiterTypeOK
<1>7. \A j \in Keys : \A i \in DOMAIN admitted'[j] : admitted'[j][i] <= now'
  BY <1>1, <1>2, <1>3 DEF LimiterInv, LimiterTypeOK
<1>8. ASSUME NEW j \in Keys
      PROVE  KeyFits(j)' /\ StretchesFit(j)'
  <2>1. CASE j = k
    BY <1>1, <1>4, <2>1, StretchesStayFit DEF KeyFits
  <2>2. CASE j # k
    <3>1. admitted'[j] = admitted[j] /\ (\A e : WindowFits(j, e)' <=> WindowFits(j, e))
          /\ (NoWindow(j)' <=> NoWindow(j))
      BY <1>1, <1>3, <2>2 DEF WindowFits, NoWindow, Times
    <3>2. KeyFits(j)'
      BY <1>4, <2>2, <3>1, CleanedFits DEF KeyFits
    <3>3. StretchesFit(j)'
      BY <1>1, <3>1 DEF StretchesFit, Times, LimiterInv
    <3> QED
      BY <3>2, <3>3
  <2> QED
    BY <2>1, <2>2
<1> QED
  BY <1>1, <1>6, <1>7, <1>8 DEF LimiterInv, RefusalFits

\* A request is turned away, and the map is cleaned or left alone.
LEMMA RefuseKeeps ==
  ASSUME LimiterInv, NEW k \in Keys, Refuse(k), entries' \in {entries, Cleaned},
         maxRequests <= 0 \/ Times(k, (now - window + 1)..now) >= maxRequests
  PROVE  LimiterInv'
<1>1. /\ answer' = [key |-> k, at |-> now, allowed |-> FALSE]
      /\ UNCHANGED <<maxRequests, now, admitted>> /\ LimiterTypeOK
  BY DEF Refuse, LimiterInv
<1>2. /\ DOMAIN entries' \subseteq Keys
      /\ \A j \in DOMAIN entries' : entries'[j] \in [count : Nat, resetAt : Int]
  BY <1>1 DEF LimiterTypeOK, Cleaned
<1>3. LimiterTypeOK'
  BY <1>1, <1>2 DEF LimiterTypeOK
<1>4. \A j \in Keys : /\ StretchesFit(j)' <=> StretchesFit(j)
                      /\ \A e : WindowFits(j, e)' <=> WindowFits(j, e)
                      /\ NoWindow(j)' <=> NoWindow(j)
  BY <1>1 DEF StretchesFit, WindowFits, NoWindow, Times
<1>5. ASSUME maxRequests > 0, NEW j \in Keys
      PROVE  KeyFits(j)' /\ StretchesFit(j)'
  <2>1. KeyFits(j)'
    <3>1. CASE entries' = entries
      BY <1>4, <1>5, <3>1 DEF KeyFits, LimiterInv
    <3>2. CASE entries' = Cleaned
      BY <1>4, <1>5, <3>2, CleanedFits DEF KeyFits
    <3> QED
      BY <3>1, <3>2
  <2> QED
    BY <1>4, <1>5, <2>1 DEF LimiterInv
<1>6. Times(k, (now - window + 1)..now) \in Nat
  BY <1>1, PlacesAreFinite DEF Times, LimiterTypeOK
<1>7. RefusalFits'
  BY <1>1, <1>6 DEF RefusalFits, Times, LimiterTypeOK
<1> QED
  BY <1>1, <1>3, <1>5, <1>7 DEF LimiterInv

LEMMA TickKeeps == LimiterInv /\ Tick => LimiterInv'
<1> SUFFICES ASSUME LimiterInv, Tick PROVE LimiterInv'
  OBVIOUS
<1>1. /\ now' = now + 1 /\ UNCHANGED <<maxRequests, entries, admitted, answer>>
      /\ LimiterTypeOK /\ window \in Nat \ {0}
  BY RateLimiterAssumption DEF Tick, LimiterInv
<1>2. LimiterTypeOK'
  BY <1>1 DEF LimiterTypeOK
<1>3. ASSUME NEW k \in Keys
      PROVE  \A i \in DOMAIN admitted[k] : admitted[k][i] \in Nat /\ admitted[k][i] <= now
  BY <1>1 DEF LimiterInv, LimiterTypeOK
<1>4. ASSUME maxRequests > 0, NEW k \in Keys
      PROVE  KeyFits(k)' /\ StretchesFit(k)'
  <2>1. KeyFits(k) /\ StretchesFit(k)
    BY <1>4 DEF LimiterInv
  <2>2. ASSUME NEW entry \in [count : Nat, resetAt : Int], WindowFits(k, entry)
        PROVE  WindowFits(k, entry)'
    BY <1>1, <2>2 DEF WindowFits, Times, LimiterTypeOK
  <2>3. ASSUME NoWindow(k) PROVE NoWindow(k)'
    <3>1. \A t : Times(k, From(t))' = Times(k, From(t))
      BY <1>1 DEF Times
    <3>2. \A t \in Int : t > now + 1 - window => t > now - window
      BY <1>1 DEF LimiterTypeOK
    <3> QED
      BY <1>1, <1>3, <2>3, <3>1, <3>2 DEF NoWindow, LimiterTypeOK
  <2> QED
    BY <1>1, <2>1, <2>2, <2>3 DEF KeyFits, StretchesFit, Times, LimiterTypeOK
<1>5. RefusalFits'
  BY <1>1 DEF LimiterInv, RefusalFits, Times
<1> QED
  BY <1>1, <1>2, <1>3, <1>4, <1>5 DEF LimiterInv, LimiterTypeOK

\* What must be shown of the window that a request opens or joins.
LEMMA WindowAfter ==
  ASSUME NEW k \in Keys, NEW log \in Seq(Nat), NEW entry \in [count : Nat, resetAt : Int],
         NEW opened \in Nat, opened = entry.resetAt - window,
         admitted'[k] = log, maxRequests' = maxRequests, now' = now, opened \in 0..now,
         entry.count \in 1..maxRequests,
         Cardinality(Places(log, From(opened))) = entry.count,
         Cardinality(Places(log, (opened - window + 1)..(opened - 1))) <= maxRequests,
         \A i \in DOMAIN log : log[i] < entry.resetAt
  PROVE  WindowFits(k, entry)'
<1>1. \A times : Times(k, times)' = Cardinality(Places(log, times))
  BY DEF Times
<1> QED
  BY <1>1 DEF WindowFits

LEMMA AllowFirstKeeps ==
  ASSUME LimiterInv, NEW k \in Keys, AllowFirst(k)
  PROVE  LimiterInv'
<1>1. PICK entry, opened : entry = [count |-> 1, resetAt |-> now + window] /\ opened = now
  OBVIOUS
<1>2. /\ LimiterTypeOK /\ window \in Nat \ {0} /\ now \in Nat
      /\ maxRequests > 0 /\ maxRequests \in Int
      /\ Admit(k, entry) /\ NoWindow(k)
  BY <1>1, RateLimiterAssumption, CleanedFits DEF AllowFirst, Over, LimiterInv, LimiterTypeOK
<1>3. PICK log, new : log = admitted[k] /\ new = Append(log, now)
  OBVIOUS
<1>0. /\ log \in Seq(Nat) /\ new \in Seq(Nat)
      /\ DOMAIN new = DOMAIN log \cup {Len(log) + 1}
      /\ \A i \in DOMAIN log : new[i] = log[i]
      /\ new[Len(log) + 1] = now
  BY <1>2, <1>3 DEF LimiterTypeOK
<1>4. admitted'[k] = new /\ now' = now /\ maxRequests' = maxRequests
  BY <1>2, <1>3 DEF Admit, LimiterTypeOK
<1>5. \A i \in DOMAIN log : log[i] \in Nat /\ log[i] < now
  BY <1>2, <1>3, <1>0 DEF NoWindow
<1>6. Cardinality(Places(new, From(opened))) = 1
  <2>1. Places(log, From(opened)) = {}
    BY <1>1, <1>2, <1>5 DEF Places, From
  <2>2. now \in From(opened)
    BY <1>1, <1>2 DEF From
  <2>3. Cardinality(Places(log, From(opened))) = 0
    BY <2>1, FS_EmptySet
  <2> QED
    BY <1>2, <1>3, <1>0, <2>2, <2>3, OneMoreTime
<1>7. Cardinality(Places(new, (opened - window + 1)..(opened - 1))) <= maxRequests
  <2>1. now \notin (opened - window + 1)..(opened - 1)
    BY <1>1, <1>2
  <2>2. \A t \in ((opened - window + 1)..(opened - 1)) \cap Nat : t \in From(opened - window + 1)
    BY <1>1, <1>2 DEF From
  <2>3. PICK a \in Nat, b \in Nat : /\ a = Cardinality(Places(log, (opened - window + 1)..(opened - 1)))
                                    /\ b = Cardinality(Places(log, From(opened - window + 1)))
                                    /\ a <= b
    BY <1>0, <2>2, MoreTimes, PlacesAreFinite
  <2>4. b <= maxRequests
    BY <1>1, <1>2, <1>3, <2>3 DEF NoWindow, Times
  <2>5. Cardinality(Places(new, (opened - window + 1)..(opened - 1)))
          = Cardinality(Places(log, (opened - window + 1)..(opened - 1)))
    <3>1. PICK times : times = (opened - window + 1)..(opened - 1)
      OBVIOUS
    <3>2. now \in Nat /\ now \notin times
      BY <1>2, <2>1, <3>1
    <3>3. Cardinality(Places(Append(log, now), times)) = Cardinality(Places(log, times))
      BY <1>0, <3>2, OneMoreTime
    <3> QED
      BY <1>3, <3>1, <3>3
  <2> QED
    BY <1>2, <2>3, <2>4, <2>5
<1>8. \A i \in DOMAIN new : new[i] < now + window
  BY <1>2, <1>3, <1>0, <1>5
<1>9. /\ entry \in [count : Nat, resetAt : Int] /\ now < entry.resetAt
      /\ entry.count = 1 /\ entry.resetAt = now + window
      /\ opened \in Nat /\ opened \in 0..now /\ opened = entry.resetAt - window
  BY <1>1, <1>2
<1>10. /\ Cardinality(Places(new, From(opened))) = entry.count
       /\ \A i \in DOMAIN new : new[i] < entry.resetAt
       /\ entry.count \in 1..maxRequests
  BY <1>2, <1>6, <1>8, <1>9
<1>11. WindowFits(k, entry)'
  BY <1>2, <1>0, <1>4, <1>7, <1>9, <1>10, WindowAfter
<1> QED
  BY <1>2, <1>9, <1>11, AdmitKeeps

LEMMA AllowNextKeeps ==
  ASSUME LimiterInv, NEW k \in Keys, AllowNext(k)
  PROVE  LimiterInv'
<1>1. PICK old, entry, opened : /\ old = Cleaned[k]
                                /\ entry = [old EXCEPT !.count = @ + 1]
                                /\ opened = old.resetAt - window
  OBVIOUS
<1>2. /\ LimiterTypeOK /\ window \in Nat \ {0} /\ now \in Nat
      /\ maxRequests > 0 /\ maxRequests \in Int
      /\ Admit(k, entry) /\ old.count < maxRequests
      /\ old \in [count : Nat, resetAt : Int] /\ WindowFits(k, old) /\ now < old.resetAt
  BY <1>1, RateLimiterAssumption, CleanedFits DEF AllowNext, LimiterInv, LimiterTypeOK
<1>3. PICK log, new : log = admitted[k] /\ new = Append(log, now)
  OBVIOUS
<1>0. /\ log \in Seq(Nat) /\ new \in Seq(Nat)
      /\ DOMAIN new = DOMAIN log \cup {Len(log) + 1}
      /\ \A i \in DOMAIN log : new[i] = log[i]
      /\ new[Len(log) + 1] = now
  BY <1>2, <1>3 DEF LimiterTypeOK
<1>4. admitted'[k] = new /\ now' = now /\ maxRequests' = maxRequests
  BY <1>2, <1>3 DEF Admit, LimiterTypeOK
<1>5. /\ entry \in [count : Nat, resetAt : Int]
      /\ entry.count = old.count + 1 /\ entry.resetAt = old.resetAt
      /\ opened \in 0..now /\ opened \in Nat /\ opened = entry.resetAt - window
  <2>1. /\ entry \in [count : Nat, resetAt : Int]
        /\ entry.count = old.count + 1 /\ entry.resetAt = old.resetAt
    BY <1>1, <1>2
  <2>2. opened \in 0..now
    BY <1>1, <1>2 DEF WindowFits
  <2> QED
    BY <1>1, <1>2, <2>1, <2>2
<1>6. Cardinality(Places(new, From(opened))) = old.count + 1
  <2>1. now \in From(opened)
    BY <1>2, <1>5 DEF From
  <2>2. Cardinality(Places(log, From(opened))) = old.count
    BY <1>1, <1>2, <1>3 DEF WindowFits, Times
  <2>3. PICK times : times = From(opened)
    OBVIOUS
  <2>4. Cardinality(Places(Append(log, now), times)) = Cardinality(Places(log, times)) + 1
    BY ONLY <1>2, <1>0, <2>1, <2>3, OneMoreTime
  <2> QED
    BY ONLY <1>3, <2>2, <2>3, <2>4
<1>7. Cardinality(Places(new, (opened - window + 1)..(opened - 1))) <= maxRequests
  <2>1. now \notin (opened - window + 1)..(opened - 1)
    BY <1>2, <1>5
  <2>2. Cardinality(Places(log, (opened - window + 1)..(opened - 1))) <= maxRequests
    BY <1>1, <1>2, <1>3 DEF WindowFits, Times
  <2> QED
    BY <1>2, <1>3, <1>0, <2>1, <2>2, OneMoreTime
<1>8. \A i \in DOMAIN new : new[i] < entry.resetAt
  <2>1. \A i \in DOMAIN log : log[i] < old.resetAt
    BY <1>2, <1>3 DEF WindowFits
  <2> QED
    BY <1>2, <1>3, <1>0, <1>5, <2>1
<1>9. entry.count \in 1..maxRequests
  BY <1>2, <1>5
<1>10. WindowFits(k, entry)'
  BY <1>2, <1>0, <1>4, <1>5, <1>6, <1>7, <1>8, <1>9, WindowAfter
<1> QED
  BY <1>2, <1>5, <1>10, AdmitKeeps

LEMMA DenyKeeps ==
  ASSUME LimiterInv, NEW k \in Keys, Deny(k)
  PROVE  LimiterInv'
<1>1. PICK old : old = Cleaned[k]
  OBVIOUS
<1> DEFINE opened == old.resetAt - window
<1>2. /\ LimiterTypeOK /\ window \in Nat \ {0} /\ now \in Nat
      /\ maxRequests > 0 /\ maxRequests \in Int
      /\ Refuse(k) /\ entries' = Cleaned /\ old.count >= maxRequests
      /\ old \in [count : Nat, resetAt : Int] /\ WindowFits(k, old) /\ now < old.resetAt
  BY <1>1, RateLimiterAssumption, CleanedFits DEF Deny, LimiterInv, LimiterTypeOK
<1>3. PICK log \in Seq(Nat) : log = admitted[k] /\ \A i \in DOMAIN log : log[i] <= now
  BY <1>2 DEF LimiterTypeOK, LimiterInv
<1>4. opened \in 0..now /\ opened > now - window
  BY <1>2 DEF WindowFits
<1>5. Places(log, From(opened)) = Places(log, opened..now)
  <2>1. \A i \in DOMAIN log : log[i] \in Nat
    BY <1>3
  <2> QED
    BY <1>2, <1>3, <1>4, <2>1 DEF Places, From
<1>6. \A t \in (opened..now) \cap Nat : t \in (now - window + 1)..now
  BY <1>2, <1>4
<1>7. PICK a \in Nat, b \in Nat : /\ a = Cardinality(Places(log, opened..now))
                                  /\ b = Cardinality(Places(log, (now - window + 1)..now))
                                  /\ a <= b
  BY <1>6, MoreTimes, PlacesAreFinite
<1>8. a = old.count
  BY <1>2, <1>3, <1>5, <1>7 DEF WindowFits, Times
<1>9. b >= maxRequests
  BY <1>2, <1>7, <1>8
<1>10. Times(k, (now - window + 1)..now) >= maxRequests
  BY <1>3, <1>7, <1>9 DEF Times
<1> QED
  BY <1>2, <1>10, RefuseKeeps

LEMMA NextLimiter == LimiterInv /\ [LimiterNext]_limiterVars => LimiterInv'
<1> SUFFICES ASSUME LimiterInv, [LimiterNext]_limiterVars PROVE LimiterInv'
  OBVIOUS
<1>1. ASSUME NEW k \in Keys, DenyAll(k) PROVE LimiterInv'
  BY <1>1, RefuseKeeps DEF DenyAll
<1>2. CASE UNCHANGED limiterVars
  BY <1>2 DEF limiterVars, LimiterInv, LimiterTypeOK, KeyFits, WindowFits, NoWindow,
              StretchesFit, RefusalFits, Times
<1> QED
  BY <1>1, <1>2, TickKeeps, AllowFirstKeeps, AllowNextKeeps, DenyKeeps DEF LimiterNext

LEMMA LimiterInvAlways == LimiterSpec => []LimiterInv
  BY InitLimiter, NextLimiter, PTL DEF LimiterSpec

\* Whatever the limit, the length of the window and the moments at which clients
\* call: no stretch as long as a window sees more than two windows' worth of one
\* client's requests, and nobody is refused for less than one window's worth.
THEOREM LimitsAreFair == LimiterSpec => []LimitIsFair
<1>1. ASSUME LimiterInv PROVE LimitIsFair
  <2>1. \A k, times : AdmittedIn(k, times) = Times(k, times)
    BY DEF AdmittedIn, Times, Places
  <2>2. maxRequests > 0 => \A k \in Keys, t \in 0..MaxTime :
                             AdmittedIn(k, t..(t + window - 1)) <= 2 * maxRequests
    BY <1>1, <2>1 DEF LimiterInv, StretchesFit
  <2>3. ~answer.allowed => AdmittedIn(answer.key, (answer.at - window + 1)..answer.at) >= maxRequests
    BY <1>1, <2>1 DEF LimiterInv, RefusalFits
  <2> QED
    BY <2>2, <2>3 DEF LimitIsFair
<1> QED
  BY <1>1, LimiterInvAlways, PTL

-------------------------------------------------------------------------------
(* Members added by name. *)

Found == [stage : {"found"}, group : Groups, asked : {Normalized(text) : text \in Texts},
          user : Users, bearers : SUBSET Users]

\* Whom a handler has found had the name when it was looked up.
NamesInv ==
    /\ DOMAIN name \subseteq Users
    /\ request \in [Requests -> {Idle} \cup Found]
    /\ member \in [Groups -> SUBSET Users]
    /\ \A r \in Requests : request[r] # Idle => request[r].user \in request[r].bearers

\* Handlers are busy or idle, and no record is both.
LEMMA BusyOrIdle == \A busy \in Found : busy # Idle /\ busy.stage = "found"
  BY DEF Found, Idle

LEMMA NextNames == NamesInv /\ [NamesNext]_namesVars => NamesInv'
<1> SUFFICES ASSUME NamesInv, [NamesNext]_namesVars PROVE NamesInv'
  OBVIOUS
<1>1. ASSUME NEW u \in Users, NEW text \in Texts, Register(u, text) PROVE NamesInv'
  BY <1>1 DEF Register, CreateUser, NamesInv
<1>2. ASSUME NEW u \in Users, NEW text \in Texts, UpdateUsername(u, text) PROVE NamesInv'
  BY <1>2 DEF UpdateUsername, UpdateUserUsername, NamesInv
<1>3. ASSUME NEW r \in Requests, NEW g \in Groups, NEW text \in Texts, FindMember(r, g, text)
      PROVE  NamesInv'
  <2>1. PICK u \in Named(text) :
          request' = [request EXCEPT ![r] =
                       [stage |-> "found", group |-> g, asked |-> Normalized(text),
                        user |-> u, bearers |-> Bearers(Normalized(text))]]
    BY <1>3 DEF FindMember
  <2>2. u \in Bearers(Normalized(text)) /\ Bearers(Normalized(text)) \subseteq Users
    BY DEF Named, Bearers, NamesInv
  <2>3. PICK busy : busy = [stage |-> "found", group |-> g, asked |-> Normalized(text),
                            user |-> u, bearers |-> Bearers(Normalized(text))]
    OBVIOUS
  <2>4. busy \in Found /\ busy.user \in busy.bearers
    BY <2>2, <2>3 DEF Found
  <2> QED
    BY <1>3, <2>1, <2>3, <2>4 DEF NamesInv, FindMember
<1>4. ASSUME NEW r \in Requests, InsertMember(r) PROVE NamesInv'
  <2>1. request[r] \in Found
    BY <1>4 DEF InsertMember, NamesInv, Idle
  <2>2. request[r].group \in Groups /\ request[r].user \in Users
    BY <2>1 DEF Found
  <2> QED
    BY <1>4, <2>2 DEF InsertMember, NamesInv
<1>5. ASSUME NEW r \in Requests, RefuseMember(r) PROVE NamesInv'
  BY <1>5 DEF RefuseMember, NamesInv
<1>6. CASE UNCHANGED namesVars
  BY <1>6 DEF namesVars, NamesInv
<1> QED
  BY <1>1, <1>2, <1>3, <1>4, <1>5, <1>6 DEF NamesNext

LEMMA NamesInvAlways == NamesSpec => []NamesInv
<1>1. NamesInit => NamesInv
  BY DEF NamesInit, NamesInv
<1> QED
  BY <1>1, NextNames, PTL DEF NamesSpec

\* Names may pass from one user to another while a handler runs, but whoever it
\* adds is the one who had the name when the handler looked it up.
THEOREM MembersBoreTheirName == NamesSpec => AddedMembersBoreTheName
<1> DEFINE Right == \A g \in Groups : \A u \in member'[g] \ member[g] :
                      \E r \in Requests : /\ request[r] # Idle /\ request'[r] = Idle
                                          /\ request[r].group = g
                                          /\ u \in request[r].bearers
<1>1. ASSUME NamesInv, NamesNext PROVE Right
  <2>1. ASSUME NEW r \in Requests, InsertMember(r) PROVE Right
    <3>1. request[r] \in Found /\ request[r] # Idle
      BY <1>1, <2>1, BusyOrIdle DEF InsertMember, NamesInv, Idle
    <3>2. request'[r] = Idle /\ request[r].user \in request[r].bearers
      BY <1>1, <2>1, <3>1 DEF InsertMember, NamesInv
    <3>3. \A g \in Groups : \A u \in member'[g] \ member[g] :
            g = request[r].group /\ u = request[r].user
      BY <1>1, <2>1 DEF InsertMember, NamesInv
    <3> QED
      BY <3>1, <3>2, <3>3
  <2>2. ASSUME UNCHANGED member PROVE Right
    BY <2>2
  <2> QED
    BY <1>1, <2>1, <2>2 DEF NamesNext, Register, CreateUser, UpdateUsername,
       UpdateUserUsername, FindMember, RefuseMember
<1>2. NamesInv /\ [NamesNext]_namesVars => [Right]_namesVars
  BY <1>1
<1> QED
  BY <1>2, NamesInvAlways, PTL DEF NamesSpec, AddedMembersBoreTheName

-------------------------------------------------------------------------------
(* Searches by name.  Induction by the least counterexample. *)

LEMMA LeastNumber ==
  ASSUME NEW S \in SUBSET Nat, S # {}
  PROVE  \E m \in S : \A k \in S : m <= k
<1>1. PICK m \in S : \A k \in S : ~(<<k, m>> \in OpToRel(<, Nat))
  BY NatLessThanWellFounded, WFMin
<1>2. \A k \in S : ~(k < m)
  BY <1>1 DEF OpToRel
<1> QED
  BY <1>2

\* What holds of 0, and of every number up to n if it holds of the one before.
LEMMA UpTo ==
  ASSUME NEW n \in Nat, NEW S, 0 \in S, \A i \in 1..n : i - 1 \in S => i \in S
  PROVE  0..n \subseteq S
<1> DEFINE missing == {i \in 0..n : i \notin S}
<1> SUFFICES ASSUME missing # {} PROVE FALSE
  OBVIOUS
<1>1. missing \in SUBSET Nat
  OBVIOUS
<1>2. PICK i \in missing : \A k \in missing : i <= k
  BY <1>1, LeastNumber
<1>3. i \in 1..n /\ i - 1 \in 0..n /\ i \notin S
  BY <1>2
<1>4. i - 1 \notin missing
  BY <1>2, <1>3
<1> QED
  BY <1>3, <1>4

-------------------------------------------------------------------------------
(* The order of names. *)

Name == {text \in Seq(STRING) : OfNameChars(text)}

LEMMA NamesAreTexts ==
  ASSUME NEW a \in Name
  PROVE  /\ a \in Seq(STRING) /\ Len(a) \in Nat /\ DOMAIN a = 1..Len(a)
         /\ \A i \in 1..Len(a) : a[i] \in ToSet(NameChars)
  BY DEF Name, OfNameChars, ToSet

LEMMA RanksTell ==
  ASSUME NEW c \in ToSet(NameChars)
  PROVE  Rank(c) \in Nat /\ NameChars[Rank(c)] = c
<1>1. \E i \in DOMAIN NameChars : NameChars[i] = c
  BY DEF ToSet
<1>2. Rank(c) \in DOMAIN NameChars /\ NameChars[Rank(c)] = c
  BY <1>1 DEF Rank
<1>3. DOMAIN NameChars = 1..Len(NameChars) /\ Len(NameChars) \in Nat
  BY UsernamesAssumption
<1> QED
  BY <1>2, <1>3

LEMMA PrefixIs ==
  ASSUME NEW a \in Seq(STRING), NEW b \in Seq(STRING)
  PROVE  IsPrefix(a, b) <=> Len(a) <= Len(b) /\ \A i \in 1..Len(a) : a[i] = b[i]
<1>1. Len(a) \in Nat /\ Len(b) \in Nat
  OBVIOUS
<1>2. ASSUME Len(a) <= Len(b)
      PROVE  /\ SubSeq(a, 1, Len(a)) = [i \in 1..Len(a) |-> a[i]]
             /\ SubSeq(b, 1, Len(a)) = [i \in 1..Len(a) |-> b[i]]
  BY <1>1, <1>2
<1> QED
  BY <1>1, <1>2 DEF IsPrefix

\* Before, said by the first place at which two names differ.
FirstDiffers(a, b, i) ==
    /\ i \in 1..Len(a) /\ i \in 1..Len(b) /\ a[i] # b[i]
    /\ \A j \in 1..(i - 1) : a[j] = b[j]

\* Two names are the same, or one is the beginning of the other, or they differ
\* at a first place.
LEMMA NamesCompare ==
  ASSUME NEW a \in Name, NEW b \in Name, a # b
  PROVE  IsStrictPrefix(a, b) \/ IsStrictPrefix(b, a) \/ \E i \in Nat : FirstDiffers(a, b, i)
<1>1. /\ a \in Seq(STRING) /\ Len(a) \in Nat /\ DOMAIN a = 1..Len(a)
      /\ b \in Seq(STRING) /\ Len(b) \in Nat /\ DOMAIN b = 1..Len(b)
  BY NamesAreTexts
<1> DEFINE S == {i \in Nat : i \in 1..Len(a) /\ i \in 1..Len(b) /\ a[i] # b[i]}
<1>2. CASE S = {}
  <2>1. Len(a) <= Len(b) => IsPrefix(a, b)
    BY <1>1, <1>2, PrefixIs
  <2>2. Len(b) <= Len(a) => IsPrefix(b, a)
    BY <1>1, <1>2, PrefixIs
  <2> QED
    BY <1>1, <2>1, <2>2 DEF IsStrictPrefix
<1>3. CASE S # {}
  <2>1. S \in SUBSET Nat
    OBVIOUS
  <2>2. PICK i \in S : \A k \in S : i <= k
    BY <1>3, <2>1, LeastNumber
  <2>3. \A j \in 1..(i - 1) : a[j] = b[j]
    BY <1>1, <2>2
  <2> QED
    BY <2>2, <2>3 DEF FirstDiffers
<1> QED
  BY <1>2, <1>3

LEMMA BeforeIs ==
  ASSUME NEW a \in Name, NEW b \in Name
  PROVE  Before(a, b) <=> \/ IsStrictPrefix(a, b)
                          \/ \E i \in Nat : FirstDiffers(a, b, i) /\ Rank(a[i]) < Rank(b[i])
<1>1. /\ Len(a) \in Nat /\ DOMAIN a = 1..Len(a) /\ Len(b) \in Nat /\ DOMAIN b = 1..Len(b)
      /\ \A i \in 1..Len(a) : Rank(a[i]) \in Nat
      /\ \A i \in 1..Len(b) : Rank(b[i]) \in Nat
  BY NamesAreTexts, RanksTell
<1>2. \A i \in DOMAIN a \cap DOMAIN b : Rank(a[i]) < Rank(b[i]) => a[i] # b[i]
  BY <1>1
<1>3. ASSUME NEW i \in DOMAIN a \cap DOMAIN b, Rank(a[i]) < Rank(b[i]),
             \A j \in 1..(i - 1) : a[j] = b[j]
      PROVE  i \in Nat /\ FirstDiffers(a, b, i)
  BY <1>1, <1>2, <1>3 DEF FirstDiffers
<1>4. ASSUME NEW i \in Nat, FirstDiffers(a, b, i)
      PROVE  i \in DOMAIN a \cap DOMAIN b /\ \A j \in 1..(i - 1) : a[j] = b[j]
  BY <1>1, <1>4 DEF FirstDiffers
<1> QED
  BY <1>3, <1>4 DEF Before

LEMMA BeforeIsTotal ==
  ASSUME NEW a \in Name, NEW b \in Name, a # b
  PROVE  Before(a, b) \/ Before(b, a)
<1>1. ASSUME NEW i \in Nat, FirstDiffers(a, b, i) PROVE Before(a, b) \/ Before(b, a)
  <2>1. a[i] \in ToSet(NameChars) /\ b[i] \in ToSet(NameChars) /\ a[i] # b[i]
    BY <1>1, NamesAreTexts DEF FirstDiffers
  <2>2. Rank(a[i]) \in Nat /\ Rank(b[i]) \in Nat /\ Rank(a[i]) # Rank(b[i])
    BY <2>1, RanksTell
  <2>3. Rank(a[i]) < Rank(b[i]) \/ Rank(b[i]) < Rank(a[i])
    BY <2>2
  <2>4. FirstDiffers(b, a, i)
    BY <1>1 DEF FirstDiffers
  <2> QED
    BY <1>1, <2>3, <2>4, BeforeIs
<1> QED
  BY <1>1, NamesCompare, BeforeIs

LEMMA BeforeIsStrict ==
  ASSUME NEW a \in Name
  PROVE  ~Before(a, a)
  BY BeforeIs DEF IsStrictPrefix, FirstDiffers

LEMMA BeforeIsTransitive ==
  ASSUME NEW a \in Name, NEW b \in Name, NEW c \in Name, Before(a, b), Before(b, c)
  PROVE  Before(a, c)
<1>1. /\ a \in Seq(STRING) /\ Len(a) \in Nat /\ \A i \in 1..Len(a) : Rank(a[i]) \in Nat
      /\ b \in Seq(STRING) /\ Len(b) \in Nat /\ \A i \in 1..Len(b) : Rank(b[i]) \in Nat
      /\ c \in Seq(STRING) /\ Len(c) \in Nat /\ \A i \in 1..Len(c) : Rank(c[i]) \in Nat
  BY NamesAreTexts, RanksTell
<1>2. CASE IsStrictPrefix(a, b) /\ IsStrictPrefix(b, c)
  <2>1. Len(a) <= Len(b) /\ Len(b) <= Len(c)
        /\ (\A i \in 1..Len(a) : a[i] = b[i]) /\ (\A i \in 1..Len(b) : b[i] = c[i])
    BY <1>1, <1>2, PrefixIs DEF IsStrictPrefix
  <2>2. IsPrefix(a, c)
    BY <1>1, <2>1, PrefixIs
  <2>3. a # c
    BY <1>1, <1>2, <2>1, PrefixIs, NamesCompare DEF IsStrictPrefix, FirstDiffers
  <2> QED
    BY <2>2, <2>3, BeforeIs DEF IsStrictPrefix
<1>3. ASSUME IsStrictPrefix(a, b), NEW i \in Nat, FirstDiffers(b, c, i), Rank(b[i]) < Rank(c[i])
      PROVE  Before(a, c)
  <2>1. Len(a) <= Len(b) /\ \A j \in 1..Len(a) : a[j] = b[j]
    BY <1>1, <1>3, PrefixIs DEF IsStrictPrefix
  <2>2. CASE i <= Len(a)
    <3>1. FirstDiffers(a, c, i) /\ Rank(a[i]) < Rank(c[i])
      BY <1>1, <1>3, <2>1, <2>2 DEF FirstDiffers
    <3> QED
      BY <3>1, BeforeIs
  <2>3. CASE i > Len(a)
    <3>1. Len(a) <= Len(c) /\ \A j \in 1..Len(a) : a[j] = c[j]
      BY <1>1, <1>3, <2>1, <2>3 DEF FirstDiffers
    <3>2. Len(a) < Len(c)
      BY <1>1, <1>3, <2>3 DEF FirstDiffers
    <3> QED
      BY <1>1, <3>1, <3>2, PrefixIs, BeforeIs DEF IsStrictPrefix
  <2> QED
    BY <1>1, <2>2, <2>3
<1>4. ASSUME IsStrictPrefix(b, c), NEW i \in Nat, FirstDiffers(a, b, i), Rank(a[i]) < Rank(b[i])
      PROVE  Before(a, c)
  <2>1. Len(b) <= Len(c) /\ \A j \in 1..Len(b) : b[j] = c[j]
    BY <1>1, <1>4, PrefixIs DEF IsStrictPrefix
  <2>2. FirstDiffers(a, c, i) /\ Rank(a[i]) < Rank(c[i])
    BY <1>1, <1>4, <2>1 DEF FirstDiffers
  <2> QED
    BY <2>2, BeforeIs
<1>5. ASSUME NEW i \in Nat, FirstDiffers(a, b, i), Rank(a[i]) < Rank(b[i]),
             NEW j \in Nat, FirstDiffers(b, c, j), Rank(b[j]) < Rank(c[j])
      PROVE  Before(a, c)
  <2>1. CASE i < j
    <3>1. FirstDiffers(a, c, i) /\ Rank(a[i]) < Rank(c[i])
      BY <1>1, <1>5, <2>1 DEF FirstDiffers
    <3> QED
      BY <3>1, BeforeIs
  <2>2. CASE j < i
    <3>1. FirstDiffers(a, c, j) /\ Rank(a[j]) < Rank(c[j])
      BY <1>1, <1>5, <2>2 DEF FirstDiffers
    <3> QED
      BY <3>1, BeforeIs
  <2>3. CASE i = j
    <3>1. Rank(a[i]) < Rank(c[i])
      BY <1>1, <1>5, <2>3 DEF FirstDiffers
    <3>2. a[i] # c[i]
      BY <1>1, <1>5, <3>1 DEF FirstDiffers
    <3>3. FirstDiffers(a, c, i)
      BY <1>1, <1>5, <2>3, <3>2 DEF FirstDiffers
    <3> QED
      BY <3>1, <3>3, BeforeIs
  <2> QED
    BY <2>1, <2>2, <2>3
<1> QED
  BY <1>2, <1>3, <1>4, <1>5, BeforeIs

-------------------------------------------------------------------------------
(* The first rows in an order. *)

\* The rows of us that come before u, and the rows that are not preceded by limit others.
Ahead(us, called, u) == {v \in us : Before(called[v], called[u])}
Top(us, called, limit) == {u \in us : Cardinality(Ahead(us, called, u)) < limit}

\* Rows with different names.
Distinct(us, called) ==
    /\ IsFiniteSet(us)
    /\ \A u \in us : called[u] \in Name
    /\ \A u, v \in us : called[u] = called[v] => u = v

LEMMA PlacesInOrder ==
  ASSUME NEW us, NEW called, Distinct(us, called), NEW u \in us
  PROVE  /\ IsFiniteSet(Ahead(us, called, u)) /\ Cardinality(us) \in Nat
         /\ Cardinality(Ahead(us, called, u)) \in 0..(Cardinality(us) - 1)
<1>1. IsFiniteSet(us) /\ called[u] \in Name /\ Cardinality(us) \in Nat
  BY FS_CardinalityType DEF Distinct
<1>2. Ahead(us, called, u) \subseteq us \ {u}
  BY <1>1, BeforeIsStrict DEF Ahead
<1>3. IsFiniteSet(us \ {u}) /\ Cardinality(us \ {u}) = Cardinality(us) - 1
  BY <1>1, FS_RemoveElement
<1>4. /\ IsFiniteSet(Ahead(us, called, u))
      /\ Cardinality(Ahead(us, called, u)) <= Cardinality(us) - 1
  BY <1>2, <1>3, FS_Subset
<1>5. Cardinality(Ahead(us, called, u)) \in Nat
  BY <1>4, FS_CardinalityType
<1> QED
  BY <1>1, <1>4, <1>5

LEMMA EarlierHaveFewerAhead ==
  ASSUME NEW us, NEW called, Distinct(us, called), NEW u \in us, NEW v \in us,
         Before(called[u], called[v])
  PROVE  Cardinality(Ahead(us, called, u)) < Cardinality(Ahead(us, called, v))
<1>1. called[u] \in Name /\ called[v] \in Name
  BY DEF Distinct
<1>2. PICK below, above : below = Ahead(us, called, u) /\ above = Ahead(us, called, v)
  OBVIOUS
<1>3. below \subseteq above
  BY <1>1, <1>2, BeforeIsTransitive DEF Ahead, Distinct
<1>4. u \in above /\ u \notin below
  BY <1>1, <1>2, BeforeIsStrict DEF Ahead
<1>5. /\ IsFiniteSet(below) /\ IsFiniteSet(above)
      /\ Cardinality(below) \in Nat /\ Cardinality(above) \in Nat
  BY <1>2, PlacesInOrder
<1>6. Cardinality(below) <= Cardinality(above) /\ Cardinality(below) # Cardinality(above)
  <2>1. below \in SUBSET above /\ below # above
    BY <1>3, <1>4
  <2> QED
    BY <1>5, <2>1, FS_Subset
<1> QED
  BY <1>2, <1>5, <1>6

\* The first rows are all rows, or exactly as many as the limit allows.
LEMMA TopIsFull ==
  ASSUME NEW us, NEW called, Distinct(us, called), NEW limit \in Nat
  PROVE  /\ Top(us, called, limit) \subseteq us
         /\ Top(us, called, limit) = us \/ Cardinality(Top(us, called, limit)) = limit
<1> DEFINE n == Cardinality(us)
           place == [u \in us |-> Cardinality(Ahead(us, called, u))]
           top == Top(us, called, limit)
<1>1. IsFiniteSet(us) /\ n \in Nat
  BY FS_CardinalityType DEF Distinct
<1>2. \A u \in us : place[u] \in 0..(n - 1)
  BY PlacesInOrder
<1>3. top = {u \in us : place[u] < limit}
  BY DEF Top
<1>4. ASSUME NEW u \in us, NEW v \in us, place[u] = place[v] PROVE u = v
  <2> SUFFICES ASSUME u # v PROVE FALSE
    OBVIOUS
  <2>1. called[u] \in Name /\ called[v] \in Name /\ called[u] # called[v]
    BY DEF Distinct
  <2>2. Before(called[u], called[v]) \/ Before(called[v], called[u])
    BY <2>1, BeforeIsTotal
  <2>3. place[u] < place[v] \/ place[v] < place[u]
    BY <2>2, EarlierHaveFewerAhead
  <2>4. place[u] \in Nat /\ place[v] \in Nat
    BY <1>1, <1>2
  <2> HIDE DEF place
  <2> QED
    BY <1>4, <2>3, <2>4
<1>5. DOMAIN place = us
  OBVIOUS
<1> HIDE DEF place, n, top
<1>6. CASE limit >= n
  <2>1. \A u \in us : place[u] < limit
    BY <1>1, <1>2, <1>6
  <2> QED
    BY <1>3, <2>1 DEF top
<1>7. CASE limit < n
  <2>1. place \in Injection(us, 0..(n - 1))
    <3>1. place \in [us -> 0..(n - 1)]
      BY <1>2, <1>5 DEF place
    <3> QED
      BY <1>4, <3>1 DEF Injection, IsInjective
  <2>2. IsFiniteSet(0..(n - 1)) /\ Cardinality(0..(n - 1)) = n
    BY <1>1, FS_Interval
  <2>3. place \in Surjection(us, 0..(n - 1))
    BY <2>1, <2>2, FS_Injection DEF n
  <2>4. \A k \in 0..(limit - 1) : \E u \in top : place[u] = k
    <3> TAKE k \in 0..(limit - 1)
    <3>1. k \in 0..(n - 1) /\ k < limit
      BY <1>1, <1>7
    <3>2. PICK u \in us : place[u] = k
      BY <2>3, <3>1 DEF Surjection
    <3> QED
      BY <1>3, <3>1, <3>2
  <2>5. \A u \in top : u \in us /\ place[u] \in 0..(limit - 1)
    BY <1>1, <1>2, <1>3
  <2>6. ExistsBijection(top, 0..(limit - 1))
    <3>1. PICK f : f = [u \in top |-> place[u]]
      OBVIOUS
    <3>2. f \in [top -> 0..(limit - 1)] /\ \A u \in top : f[u] = place[u]
      BY <2>5, <3>1
    <3>3. f \in Injection(top, 0..(limit - 1))
      BY <1>4, <2>5, <3>2 DEF Injection, IsInjective
    <3>4. f \in Surjection(top, 0..(limit - 1))
      BY <2>4, <3>2 DEF Surjection
    <3> QED
      BY <3>3, <3>4 DEF ExistsBijection, Bijection
  <2>7. IsFiniteSet(top)
    BY <1>1, <2>5, FS_Subset
  <2>8. IsFiniteSet(0..(limit - 1)) /\ Cardinality(0..(limit - 1)) = limit
    BY FS_Interval
  <2>9. Cardinality(top) = limit
    BY <2>6, <2>7, <2>8, FS_Bijection
  <2> QED
    BY <1>3, <2>9 DEF top
<1> QED
  BY <1>1, <1>6, <1>7

-------------------------------------------------------------------------------
(* LIKE, for the patterns of searches. *)

\* The first j characters of query are those of s.
Starts(s, query, j) == j <= Len(s) /\ \A i \in 1..j : s[i] = query[i]

LEMMA OneMoreElement ==
  ASSUME NEW S, NEW a \in Seq(S), NEW b \in Seq(S), Len(b) = 1
  PROVE  /\ Len(a \o b) = Len(a) + 1
         /\ (a \o b)[Len(a) + 1] = b[1]
         /\ \A j \in 1..Len(a) : (a \o b)[j] = a[j]
<1>1. PICK n \in Nat : n = Len(a)
  OBVIOUS
<1>2. PICK c : c = a \o b
  OBVIOUS
<1>3. Len(c) = n + 1
  <2>1. Len(c) = Len(a) + Len(b)
    BY <1>2, ConcatProperties
  <2> QED
    BY <1>1, <2>1
<1>4. \A i \in 1..(n + 1) : c[i] = IF i <= n THEN a[i] ELSE b[i - n]
  BY <1>1, <1>2, ConcatProperties
<1>5. c[n + 1] = b[1]
  <2>1. n + 1 \in 1..(n + 1) /\ ~(n + 1 <= n) /\ (n + 1) - n = 1
    OBVIOUS
  <2> QED
    BY <1>4, <2>1
<1>6. \A j \in 1..n : c[j] = a[j]
  BY <1>4
<1> QED
  BY <1>1, <1>2, <1>3, <1>5, <1>6

LEMMA PatternOfQuery ==
  ASSUME NEW query \in Name
  PROVE  LET p == SearchPattern(query)
         IN  /\ Len(p) = Len(query) + 1
             /\ p[Len(query) + 1] = "%"
             /\ \A j \in 1..Len(query) : /\ p[j] \notin {"%", "_"}
                                         /\ Literal(p[j]) = query[j]
<1>1. /\ query \in Seq(STRING) /\ Len(query) \in Nat /\ DOMAIN query = 1..Len(query)
      /\ \A j \in 1..Len(query) : query[j] \in ToSet(NameChars)
  BY NamesAreTexts
<1> DEFINE begin == [j \in DOMAIN query |-> IF query[j] = "_" THEN "\\_" ELSE query[j]]
<1> DEFINE Elements == {"%"} \cup {IF query[j] = "_" THEN "\\_" ELSE query[j] : j \in 1..Len(query)}
<1>2. begin \in Seq(Elements) /\ Len(begin) = Len(query)
  <2>1. \A j \in 1..Len(query) : (IF query[j] = "_" THEN "\\_" ELSE query[j]) \in Elements
    OBVIOUS
  <2>2. begin = [j \in 1..Len(query) |-> IF query[j] = "_" THEN "\\_" ELSE query[j]]
    BY <1>1
  <2>3. begin \in [1..Len(query) -> Elements]
    BY <2>1, <2>2
  <2> HIDE DEF begin, Elements
  <2> QED
    BY <1>1, <2>3
<1>3. \A j \in 1..Len(query) : begin[j] = IF query[j] = "_" THEN "\\_" ELSE query[j]
  BY <1>1
<1>4. SearchPattern(query) = begin \o <<"%">>
  BY DEF SearchPattern
<1> HIDE DEF begin
<1>0. "%" \in Elements
  OBVIOUS
<1> HIDE DEF Elements
<1>5. PICK p : p = begin \o <<"%">>
  OBVIOUS
<1>6. /\ Len(p) = Len(query) + 1
      /\ p[Len(query) + 1] = "%"
      /\ \A j \in 1..Len(query) : p[j] = begin[j]
  <2>1. <<"%">> \in Seq(Elements) /\ Len(<<"%">>) = 1 /\ <<"%">>[1] = "%"
    BY <1>0
  <2>2. PICK last \in Seq(Elements) : last = <<"%">>
    BY <2>1
  <2>3. Len(last) = 1 /\ last[1] = "%" /\ p = begin \o last
    BY <1>5, <2>1, <2>2
  <2> QED
    BY <1>2, <2>3, OneMoreElement
<1>7. ASSUME NEW j \in 1..Len(query)
      PROVE  p[j] \notin {"%", "_"} /\ Literal(p[j]) = query[j]
  <2>1. query[j] # "%" /\ query[j] # "\\_"
    BY <1>1, UsernamesAssumption
  <2>2. p[j] = IF query[j] = "_" THEN "\\_" ELSE query[j]
    BY <1>3, <1>6
  <2> QED
    BY <2>1, <2>2 DEF Literal
<1> QED
  BY <1>4, <1>5, <1>6, <1>7

\* A name is like the pattern of a search exactly if it begins with the query.
LEMMA LikeIsPrefix ==
  ASSUME NEW s \in Name, NEW query \in Name
  PROVE  Like(s, SearchPattern(query)) <=> IsPrefix(query, s)
<1> DEFINE n == Len(s)
           q == Len(query)
<1>1. n \in Nat /\ q \in Nat /\ s \in Seq(STRING) /\ query \in Seq(STRING)
  BY NamesAreTexts
<1>2. PICK p : p = SearchPattern(query)
  OBVIOUS
<1>3. /\ Len(p) = q + 1 /\ p[q + 1] = "%"
      /\ \A j \in 1..q : p[j] \notin {"%", "_"} /\ Literal(p[j]) = query[j]
  BY <1>2, PatternOfQuery
<1>4. PICK f : f = [j \in 0..(q + 1) |->
                      IF j <= q THEN {k \in {j} : Starts(s, query, j)}
                      ELSE {k \in 0..n : q <= k /\ Starts(s, query, q)}]
  OBVIOUS
<1>5. /\ f[0] = {0}
      /\ \A j \in 0..q : f[j] = {k \in {j} : Starts(s, query, j)}
      /\ f[q + 1] = {k \in 0..n : q <= k /\ Starts(s, query, q)}
  <2>1. 0 \in 0..(q + 1) /\ q + 1 \in 0..(q + 1) /\ 0 <= q /\ ~(q + 1 <= q)
        /\ \A j \in 0..q : j \in 0..(q + 1) /\ j <= q
    BY <1>1
  <2>2. Starts(s, query, 0)
    BY <1>1 DEF Starts
  <2> QED
    BY <1>4, <2>1, <2>2
<1> DEFINE after(before, j) == {k \in 0..n : \E i \in before : LeadsTo(s, p[j], i, k)}
           is(places) ==
             places = [j \in 0..(q + 1) |-> IF j = 0 THEN {0} ELSE after(places[j - 1], j)]
<1>6. ASSUME NEW j \in 1..(q + 1) PROVE after(f[j - 1], j) = f[j]
  <2>1. CASE j = q + 1
    <3>1. \A i, k : LeadsTo(s, p[j], i, k) <=> i <= k \/ (k = i + 1 /\ s[k] = "%")
      BY <1>3, <2>1 DEF LeadsTo, Literal
    <3>2. f[j - 1] = {k \in {q} : Starts(s, query, q)}
      BY <1>1, <1>5, <2>1
    <3>3. ASSUME NEW k \in 0..n
          PROVE  (\E i \in f[j - 1] : LeadsTo(s, p[j], i, k)) <=> q <= k /\ Starts(s, query, q)
      BY <1>1, <3>1, <3>2
    <3> QED
      BY <1>5, <2>1, <3>3
  <2>2. CASE j <= q
    <3>1. j \in 1..q /\ j - 1 \in 0..q /\ j \in 0..q
      BY <1>1, <2>2
    <3>2. \A i, k : LeadsTo(s, p[j], i, k) <=> k = i + 1 /\ s[k] = query[j]
      BY <1>3, <3>1 DEF LeadsTo
    <3>3. Starts(s, query, j) <=> j <= n /\ Starts(s, query, j - 1) /\ s[j] = query[j]
      BY <1>1, <3>1 DEF Starts
    <3>4. \A i : i \in f[j - 1] <=> i = j - 1 /\ Starts(s, query, j - 1)
      BY <1>5, <3>1
    <3>5. ASSUME NEW k
          PROVE  k \in after(f[j - 1], j) <=> k = j /\ Starts(s, query, j)
      <4>1. k \in after(f[j - 1], j) <=> /\ k \in 0..n /\ Starts(s, query, j - 1)
                                         /\ k = (j - 1) + 1 /\ s[k] = query[j]
        BY <3>2, <3>4
      <4> QED
        BY <1>1, <3>1, <3>3, <4>1
    <3> HIDE DEF after
    <3> QED
      BY <1>5, <3>1, <3>5
  <2> QED
    BY <1>1, <2>1, <2>2
<1>7. \A j \in 0..(q + 1) : j # 0 => j \in 1..(q + 1) /\ j - 1 \in 0..(q + 1)
  BY <1>1
<1>8. \E places : is(places)
  <2>1. \A j \in 0..(q + 1) : f[j] = IF j = 0 THEN {0} ELSE after(f[j - 1], j)
    <3> HIDE DEF after
    <3> QED
      BY <1>5, <1>6, <1>7
  <2>2. f = [j \in 0..(q + 1) |-> f[j]]
    BY <1>4
  <2> HIDE DEF after
  <2>3. is(f)
    BY <2>1, <2>2
  <2> QED
    BY <2>3
<1>9. PICK places : is(places) /\ (Like(s, p) <=> n \in places[q + 1])
  <2>1. Like(s, p) <=> n \in (CHOOSE places : is(places))[q + 1]
    BY <1>3 DEF Like
  <2> HIDE DEF is
  <2> QED
    BY <1>8, <2>1
<1>10. places[q + 1] = f[q + 1]
  <2>1. \A j \in 0..(q + 1) : places[j] = IF j = 0 THEN {0} ELSE after(places[j - 1], j)
    <3> HIDE DEF after
    <3> QED
      BY <1>9
  <2> DEFINE S == {j \in 0..(q + 1) : places[j] = f[j]}
  <2>2. 0 \in S
    <3>1. 0 \in 0..(q + 1)
      BY <1>1
    <3>2. places[0] = {0}
      <4> HIDE DEF after
      <4> QED
        BY <2>1, <3>1
    <3> QED
      BY <1>5, <3>1, <3>2
  <2>3. ASSUME NEW j \in 1..(q + 1), j - 1 \in S PROVE j \in S
    <3>1. j \in 0..(q + 1) /\ j # 0
      BY <1>1
    <3>2. places[j] = after(places[j - 1], j)
      <4> HIDE DEF after
      <4> QED
        BY <2>1, <3>1
    <3>3. places[j - 1] = f[j - 1]
      BY <2>3
    <3>4. after(places[j - 1], j) = after(f[j - 1], j)
      BY <3>3
    <3> HIDE DEF after
    <3> QED
      BY <1>6, <3>1, <3>2, <3>4
  <2>4. 0..(q + 1) \subseteq S
    <3> HIDE DEF S
    <3>1. \A j \in 1..(q + 1) : j - 1 \in S => j \in S
      BY <2>3
    <3>2. q + 1 \in Nat
      BY <1>1
    <3> HIDE DEF q
    <3> QED
      BY <2>2, <3>1, <3>2, UpTo
  <2> QED
    BY <1>1, <2>4
<1> HIDE DEF is, after
<1>11. Like(s, p) <=> q <= n /\ Starts(s, query, q)
  BY <1>1, <1>5, <1>9, <1>10
<1>12. IsPrefix(query, s) <=> q <= n /\ \A i \in 1..q : query[i] = s[i]
  BY <1>1, PrefixIs
<1> QED
  BY <1>2, <1>11, <1>12 DEF Starts

-------------------------------------------------------------------------------
(* What clients type. *)

LEMMA LeastAndGreatest ==
  ASSUME NEW n \in Nat, NEW S \in SUBSET (1..n), S # {}
  PROVE  Min(S) \in S /\ Max(S) \in S /\ Min(S) <= Max(S)
<1>1. \E x \in S : \A y \in S : x <= y
  BY LeastNumber
<1>2. \E x \in S : \A y \in S : x >= y
  <2> DEFINE T == {n - x : x \in S}
  <2>1. T \in SUBSET Nat /\ T # {}
    <3>1. PICK x \in S : TRUE
      OBVIOUS
    <3>2. n - x \in T
      OBVIOUS
    <3>3. \A y \in S : n - y \in Nat
      OBVIOUS
    <3> QED
      BY <3>2, <3>3
  <2>2. PICK t \in T : \A k \in T : t <= k
    BY <2>1, LeastNumber
  <2>3. PICK x \in S : t = n - x
    BY <2>2
  <2>4. \A y \in S : n - y \in T
    OBVIOUS
  <2>5. \A y \in S : x \in 1..n /\ y \in 1..n /\ n - x <= n - y
    BY <2>2, <2>3, <2>4
  <2> QED
    BY <2>5
<1>3. Min(S) \in S /\ \A y \in S : Min(S) <= y
  BY <1>1 DEF Min
<1>4. Max(S) \in S /\ \A y \in S : Max(S) >= y
  BY <1>2 DEF Max
<1> QED
  BY <1>3, <1>4

LEMMA NormalizedIsText ==
  ASSUME NEW text \in Texts
  PROVE  Normalized(text) \in Seq(STRING)
<1>1. text \in Seq(STRING)
  BY UsernamesAssumption
<1> DEFINE kept == {i \in DOMAIN text : text[i] # " "}
<1>2. Trimmed(text) \in Seq(STRING)
  <2>1. CASE kept = {}
    <3>1. Trimmed(text) = <<>>
      BY <2>1, Zenon DEF Trimmed
    <3> QED
      BY <3>1
  <2>2. CASE kept # {}
    <3>1. DOMAIN text = 1..Len(text) /\ Len(text) \in Nat
      BY <1>1
    <3>2. kept \in SUBSET (1..Len(text))
      BY <3>1
    <3>3. PICK a, b : a = Min(kept) /\ b = Max(kept)
      OBVIOUS
    <3>4. a \in 1..Len(text) /\ b \in 1..Len(text) /\ a <= b
      <4> HIDE DEF kept
      <4> QED
        BY <2>2, <3>1, <3>2, <3>3, LeastAndGreatest
    <3>5. Trimmed(text) = SubSeq(text, a, b)
      BY <2>2, <3>3, Zenon DEF Trimmed
    <3> QED
      BY <1>1, <3>1, <3>4, <3>5
  <2> QED
    BY <2>1, <2>2
<1>3. PICK kernel \in Seq(STRING) : kernel = Trimmed(text)
  BY <1>2
<1>4. \A i \in 1..Len(kernel) : Lower(kernel[i]) \in STRING
  BY UsernamesAssumption DEF Lower
<1>5. [i \in 1..Len(kernel) |-> Lower(kernel[i])] \in Seq(STRING)
  BY <1>4
<1> QED
  BY <1>3, <1>5 DEF Normalized

-------------------------------------------------------------------------------
(* Searches. *)

\* Names are valid, and unique.
NamesAreGood ==
    /\ name = [u \in DOMAIN name |-> name[u]]
    /\ IsFiniteSet(DOMAIN name)
    /\ \A u \in DOMAIN name : name[u] \in Name
    /\ \A u, v \in DOMAIN name : name[u] = name[v] => u = v

LEMMA NextGood == NamesAreGood /\ [NamesNext]_namesVars => NamesAreGood'
<1> SUFFICES ASSUME NamesAreGood, [NamesNext]_namesVars PROVE NamesAreGood'
  OBVIOUS
<1>1. ASSUME NEW u \in Users, NEW text \in Texts, Register(u, text) PROVE NamesAreGood'
  <2>1. PICK called : called = Normalized(text)
    OBVIOUS
  <2>2. called \in Name
    BY <1>1, <2>1, NormalizedIsText DEF Register, ValidName, Name
  <2>3. /\ u \notin DOMAIN name
        /\ \A v \in DOMAIN name : name[v] # called
        /\ name' = [v \in DOMAIN name \cup {u} |-> IF v = u THEN called ELSE name[v]]
    BY <1>1, <2>1 DEF Register, CreateUser, Taken
  <2>4. IsFiniteSet(DOMAIN name \cup {u})
    BY FS_AddElement DEF NamesAreGood
  <2> QED
    BY <2>2, <2>3, <2>4 DEF NamesAreGood
<1>2. ASSUME NEW u \in Users, NEW text \in Texts, UpdateUsername(u, text) PROVE NamesAreGood'
  <2>1. PICK called : called = Normalized(text)
    OBVIOUS
  <2>2. called \in Name
    BY <1>2, <2>1, NormalizedIsText DEF UpdateUsername, ValidName, Name
  <2>3. /\ u \in DOMAIN name
        /\ \A v \in DOMAIN name : name[v] = called => name[u] = called
        /\ name' = [name EXCEPT ![u] = called]
    BY <1>2, <2>1 DEF UpdateUsername, UpdateUserUsername, Taken
  <2>4. /\ name' = [v \in DOMAIN name |-> IF v = u THEN called ELSE name[v]]
        /\ DOMAIN name' = DOMAIN name
    BY <2>3
  <2>5. \A v \in DOMAIN name : name[v] \in Name /\ (v # u => name[v] # called)
    BY <2>3 DEF NamesAreGood
  <2> QED
    BY <2>2, <2>4, <2>5 DEF NamesAreGood
<1>3. ASSUME UNCHANGED name PROVE NamesAreGood'
  BY <1>3 DEF NamesAreGood
<1> QED
  BY <1>1, <1>2, <1>3 DEF NamesNext, FindMember, InsertMember, RefuseMember, namesVars

\* A search finds the first of those whose names begin with the query.
LEMMA SearchFinds ==
  ASSUME NamesAreGood, NEW text \in Texts, Len(Normalized(text)) >= 2
  PROVE  LET due == {u \in DOMAIN name : IsPrefix(Normalized(text), name[u])}
         IN  /\ Search(text) = Top(due, name, MaxSearchResults)
             /\ ~OfNameChars(Normalized(text)) => due = {}
<1>1. PICK query \in Seq(STRING) : query = Normalized(text)
  BY NormalizedIsText
<1>2. PICK due : due = {u \in DOMAIN name : IsPrefix(query, name[u])}
  OBVIOUS
<1>3. CASE OfNameChars(query)
  <2>1. query \in Name
    BY <1>3 DEF Name
  <2>2. Matching(query) = due
    BY <1>2, <2>1, LikeIsPrefix DEF Matching, NamesAreGood
  <2>3. Search(text) = Leading(due, MaxSearchResults)
    BY <1>1, <1>3, <2>2 DEF Search
  <2> QED
    BY <1>1, <1>2, <1>3, <2>3 DEF Leading, Top, Ahead
<1>4. CASE ~OfNameChars(query)
  <2>1. due = {}
    <3> SUFFICES ASSUME NEW u \in due PROVE FALSE
      OBVIOUS
    <3>1. IsPrefix(query, name[u]) /\ name[u] \in Name
      BY <1>2 DEF NamesAreGood
    <3>2. PICK called \in Name : called = name[u]
      BY <3>1
    <3>3. called \in Seq(STRING) /\ \A i \in 1..Len(called) : called[i] \in ToSet(NameChars)
      BY NamesAreTexts
    <3>4. Len(query) <= Len(called) /\ \A i \in 1..Len(query) : query[i] = called[i]
      BY <3>1, <3>2, <3>3, PrefixIs
    <3>5. \A i \in 1..Len(query) : query[i] \in ToSet(NameChars)
      BY <3>3, <3>4
    <3> QED
      BY <1>4, <3>5 DEF OfNameChars, ToSet
  <2>2. Search(text) = {}
    BY <1>1, <1>4 DEF Search
  <2> QED
    BY <1>1, <1>2, <2>1, <2>2 DEF Top
<1> QED
  BY <1>3, <1>4

\* A search finds those whose names begin with what was typed, all of them or as
\* many as it may show, and never misses the one who has exactly that name.
THEOREM SearchesGoByPrefix == NamesSpec => []SearchIsByPrefix
<1>1. NamesInit => NamesAreGood
  BY FS_EmptySet DEF NamesInit, NamesAreGood
<1>2. NamesAreGood => SearchIsByPrefix
  <2> SUFFICES ASSUME NamesAreGood, NEW text \in Texts, Len(Normalized(text)) >= 2
               PROVE  LET due == {u \in DOMAIN name : IsPrefix(Normalized(text), name[u])}
                      IN  /\ Search(text) \subseteq due
                          /\ Search(text) = due \/ Cardinality(Search(text)) = MaxSearchResults
                          /\ Named(text) \subseteq Search(text)
    BY DEF SearchIsByPrefix
  <2>1. PICK query \in Seq(STRING) : query = Normalized(text)
    BY NormalizedIsText
  <2>2. PICK due : due = {u \in DOMAIN name : IsPrefix(query, name[u])}
    OBVIOUS
  <2>3. Search(text) = Top(due, name, MaxSearchResults)
    BY <2>1, <2>2, SearchFinds
  <2>4. Distinct(due, name)
    <3>1. IsFiniteSet(due)
      BY <2>2, FS_Subset DEF NamesAreGood
    <3> QED
      BY <2>2, <3>1 DEF Distinct, NamesAreGood
  <2>5. MaxSearchResults \in Nat \ {0}
    BY UsernamesAssumption
  <2>6. /\ Search(text) \subseteq due
        /\ Search(text) = due \/ Cardinality(Search(text)) = MaxSearchResults
    BY <2>3, <2>4, <2>5, TopIsFull
  <2>7. ASSUME NEW u \in Named(text) PROVE u \in Search(text)
    <3>1. u \in DOMAIN name /\ name[u] = query /\ query \in Name
      BY <2>1, <2>7 DEF Named, Bearers, ValidName, Name
    <3>2. u \in due
      BY <2>1, <2>2, <3>1, PrefixIs
    <3>3. ASSUME NEW v \in due PROVE ~Before(name[v], name[u])
      <4>1. PICK called \in Name : called = name[v] /\ IsPrefix(query, called)
        BY <2>2 DEF NamesAreGood
      <4>2. CASE called = query
        BY <3>1, <4>1, <4>2, BeforeIsStrict
      <4>3. CASE called # query
        <5>1. Before(query, called)
          BY <3>1, <4>1, <4>3, BeforeIs DEF IsStrictPrefix
        <5>2. ~Before(called, query)
          BY <3>1, <5>1, BeforeIsTransitive, BeforeIsStrict
        <5> QED
          BY <3>1, <4>1, <5>2
      <4> QED
        BY <4>2, <4>3
    <3>4. Ahead(due, name, u) = {}
      BY <3>3 DEF Ahead
    <3>5. Cardinality(Ahead(due, name, u)) = 0
      BY <3>4, FS_EmptySet
    <3> QED
      BY <2>3, <2>5, <3>2, <3>5 DEF Top
  <2> QED
    BY <2>1, <2>2, <2>6, <2>7
<1> QED
  BY <1>1, <1>2, NextGood, PTL DEF NamesSpec
===============================================================================
