--------------------------------- MODULE Otp ---------------------------------
(***************************************************************************)
(* The one-time codes of one email address and one purpose:                *)
(* internal/otp and the parts of handlers/otp.go that send codes and check *)
(* what users type.  Every query selects one address and one purpose, so   *)
(* the codes of others cannot meet these.                                  *)
(*                                                                         *)
(* There are no transactions: each statement is a step of its own, and     *)
(* what a call has read may be old when it acts on it.                     *)
(*                                                                         *)
(* Time is what it does to a row: the cooldown ends, the row leaves the    *)
(* window of counted requests, the code expires.  Mailing the code and the *)
(* look-up of the account change none of this and are left out.            *)
(***************************************************************************)
EXTENDS Integers, FiniteSets, Sequences

CONSTANTS
    Senders,            \* calls that send a code, under way at one time
    Guessers,           \* calls that check a code, under way at one time
    MaxAttempts,
    RequestsPerWindow,
    MaxCodes            \* rows the model has room for

ASSUME OtpAssumption ==
    /\ IsFiniteSet(Senders) /\ Senders # {}
    /\ IsFiniteSet(Guessers) /\ Guessers # {}
    /\ MaxAttempts \in Nat \ {0}
    /\ RequestsPerWindow \in Nat \ {0}
    /\ MaxCodes \in Nat

VARIABLES
    code,     \* the rows of email_verifications, oldest first
    sender,   \* sender[s]: the statement that call s runs next
    guess     \* guess[g]: the row that call g has read, and whether what was
              \* typed is the code in it

vars == <<code, sender, guess>>

-------------------------------------------------------------------------------
Stages == {"idle", "count", "expire", "create"}

\* uses counts the runs of MarkVerified: verified_at IS NULL means uses = 0.
Row == [uses : Nat, attempts : Nat, expired : BOOLEAN, recent : BOOLEAN,
        cooling : BOOLEAN]

NewRow == [uses |-> 0, attempts |-> 0, expired |-> FALSE, recent |-> TRUE,
           cooling |-> TRUE]

NoGuess == [code |-> 0, right |-> FALSE]

Guess == [code : Nat, right : BOOLEAN]

Unspent == {i \in DOMAIN code : code[i].uses = 0}

\* The row of GetActiveByEmailAndPurpose, expired or not.
IsActive(i) == i \in Unspent /\ \A j \in Unspent : j <= i

\* The rows of CountRecentRequests.
Recent == {i \in DOMAIN code : code[i].recent}

Live == {i \in Unspent : ~code[i].expired}

\* The calls that have read row i and not acted on it yet.
Holders(i) == {g \in Guessers : guess[g].code = i}

At(stages) == {s \in Senders : sender[s] \in stages}

Init ==
    /\ code = <<>>
    /\ sender = [s \in Senders |-> "idle"]
    /\ guess = [g \in Guessers |-> NoGuess]

-------------------------------------------------------------------------------
(* Sending a code. *)

CheckCooldown(s) ==
    /\ sender[s] = "idle"
    /\ \A i \in Unspent : IsActive(i) => ~code[i].cooling
    /\ sender' = [sender EXCEPT ![s] = "count"]
    /\ UNCHANGED <<code, guess>>

\* Mutant: the request that reaches the limit is let through.
CountRequestsLate(s) ==
    /\ sender[s] = "count"
    /\ sender' = [sender EXCEPT ![s] =
                    IF Cardinality(Recent) > RequestsPerWindow THEN "idle" ELSE "expire"]
    /\ UNCHANGED <<code, guess>>

CountRequests(s) ==
    /\ sender[s] = "count"
    /\ sender' = [sender EXCEPT ![s] =
                    IF Cardinality(Recent) >= RequestsPerWindow THEN "idle" ELSE "expire"]
    /\ UNCHANGED <<code, guess>>

\* Mutant: nothing is expired.
ExpireNothing(s) ==
    /\ sender[s] = "expire"
    /\ sender' = [sender EXCEPT ![s] = "create"]
    /\ UNCHANGED <<code, guess>>

\* now() of the database becomes expires_at, which the program compares with its own
\* clock (service.go:144).  That the row is expired at once assumes that the program's
\* clock is not behind the database's.
ExpireOld(s) ==
    /\ sender[s] = "expire"
    /\ sender' = [sender EXCEPT ![s] = "create"]
    /\ code' = [i \in DOMAIN code |-> [code[i] EXCEPT !.expired = @ \/ i \in Unspent]]
    /\ UNCHANGED guess

CreateCode(s) ==
    /\ sender[s] = "create"
    /\ Len(code) < MaxCodes
    /\ sender' = [sender EXCEPT ![s] = "idle"]
    /\ code' = Append(code, NewRow)
    /\ UNCHANGED guess

\* An error, a cancelled request or a crash between two statements.
SenderFails(s) ==
    /\ sender[s] # "idle"
    /\ sender' = [sender EXCEPT ![s] = "idle"]
    /\ UNCHANGED <<code, guess>>

-------------------------------------------------------------------------------
(* Checking a code. *)

\* Mutant: the attempts are not compared.
ReadCodeAnyAttempts(g, right) ==
    /\ guess[g] = NoGuess
    /\ \E i \in Unspent :
         /\ IsActive(i)
         /\ ~code[i].expired
         /\ guess' = [guess EXCEPT ![g] = [code |-> i, right |-> right]]
    /\ UNCHANGED <<code, sender>>

\* Mutant: the query forgets verified_at IS NULL.
ReadAnyCode(g, right) ==
    /\ guess[g] = NoGuess
    /\ \E i \in DOMAIN code :
         /\ i = Len(code)
         /\ ~code[i].expired
         /\ code[i].attempts < MaxAttempts
         /\ guess' = [guess EXCEPT ![g] = [code |-> i, right |-> right]]
    /\ UNCHANGED <<code, sender>>

\* Mutant: expires_at is not compared.
ReadExpiredCode(g, right) ==
    /\ guess[g] = NoGuess
    /\ \E i \in Unspent :
         /\ IsActive(i)
         /\ code[i].attempts < MaxAttempts
         /\ guess' = [guess EXCEPT ![g] = [code |-> i, right |-> right]]
    /\ UNCHANGED <<code, sender>>

\* The SELECT, and the checks on what it returned.  A call that fails them
\* changes nothing.
ReadCode(g, right) ==
    /\ guess[g] = NoGuess
    /\ \E i \in Unspent :
         /\ IsActive(i)
         /\ ~code[i].expired
         /\ code[i].attempts < MaxAttempts
         /\ guess' = [guess EXCEPT ![g] = [code |-> i, right |-> right]]
    /\ UNCHANGED <<code, sender>>

IncrementAttempt(g) ==
    /\ guess[g] # NoGuess
    /\ ~guess[g].right
    /\ code' = [code EXCEPT ![guess[g].code].attempts = @ + 1]
    /\ guess' = [guess EXCEPT ![g] = NoGuess]
    /\ UNCHANGED sender

MarkVerified(g) ==
    /\ guess[g] # NoGuess
    /\ guess[g].right
    /\ code' = [code EXCEPT ![guess[g].code].uses = @ + 1]
    /\ guess' = [guess EXCEPT ![g] = NoGuess]
    /\ UNCHANGED sender

GuesserFails(g) ==
    /\ guess[g] # NoGuess
    /\ guess' = [guess EXCEPT ![g] = NoGuess]
    /\ UNCHANGED <<code, sender>>

-------------------------------------------------------------------------------
(* Time.  Rows leave the cooldown and the window oldest first.  A new row expires by
   the program's clock, whose order need not be that of created_at, the database's:
   rows expire in any order. *)

CooldownEnds(i) ==
    /\ code[i].cooling
    /\ \A j \in 1..(i - 1) : ~code[j].cooling
    /\ code' = [code EXCEPT ![i].cooling = FALSE]
    /\ UNCHANGED <<sender, guess>>

LeaveWindow(i) ==
    /\ code[i].recent
    /\ \A j \in 1..(i - 1) : ~code[j].recent
    /\ code' = [code EXCEPT ![i].recent = FALSE]
    /\ UNCHANGED <<sender, guess>>

Expire(i) ==
    /\ ~code[i].expired
    /\ code' = [code EXCEPT ![i].expired = TRUE]
    /\ UNCHANGED <<sender, guess>>

Send(s) ==
    \/ CheckCooldown(s)
    \/ CountRequests(s)
    \/ ExpireOld(s)
    \/ CreateCode(s)
    \/ SenderFails(s)

Check(g) ==
    \/ \E right \in BOOLEAN : ReadCode(g, right)
    \/ IncrementAttempt(g)
    \/ MarkVerified(g)
    \/ GuesserFails(g)

Time == \E i \in DOMAIN code : CooldownEnds(i) \/ LeaveWindow(i) \/ Expire(i)

Next ==
    \/ \E s \in Senders : Send(s)
    \/ \E g \in Guessers : Check(g)
    \/ Time

Spec == Init /\ [][Next]_vars

-------------------------------------------------------------------------------
(* Properties.  No transaction surrounds a check and what it protects, so every
   limit of internal/otp may be passed by calls that overlap: the bounds say by how
   much, and with one call at a time they are the limits of the configuration. *)

\* The rows and the calls have the shape of the Go types, and a call holds a
\* row that exists.
TypeOK ==
    /\ code \in Seq(Row)
    /\ sender \in [Senders -> Stages]
    /\ guess \in [Guessers -> Guess]
    /\ \A g \in Guessers : guess[g] = NoGuess \/ guess[g].code \in DOMAIN code

\* The wrong guesses that a code takes, those still being compared included,
\* pass MaxAttempts by less than the number of calls that overlap.
AttemptsBounded ==
    \A i \in DOMAIN code :
      code[i].attempts + Cardinality(Holders(i)) < MaxAttempts + Cardinality(Guessers)

\* A code is accepted by no more calls than overlap: by one if they do not,
\* whatever codes are requested meanwhile.
UsesBounded == \A i \in DOMAIN code : code[i].uses <= Cardinality(Guessers)

\* Not more codes can be accepted than senders overlap: a new code replaces
\* the old ones.
LiveCodesBounded == Cardinality(Live) <= Cardinality(Senders)

\* The codes of one window pass RequestsPerWindow by less than the number of
\* senders that overlap.
WindowBounded ==
    Cardinality(Recent) < RequestsPerWindow + Cardinality(Senders)

\* A replaced code does not come back, not even when the newer ones are spent
\* and their rows no longer hide it: a call reads none that as many codes have
\* replaced as senders overlap.  With one sender only the newest code is read.
ReplacedCodesStayDead ==
    [][\A g \in Guessers, i \in DOMAIN code :
         (guess[g] = NoGuess /\ guess'[g].code = i)
           => Len(code) - i < Cardinality(Senders)]_vars
===============================================================================
