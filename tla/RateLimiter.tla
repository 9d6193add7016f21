------------------------------ MODULE RateLimiter ------------------------------
(***************************************************************************)
(* middleware.RateLimiter: a window of fixed length for every key, which   *)
(* opens with the key's first request and not on the clock.  allow holds   *)
(* the mutex from its first read to its last write, so a call is one       *)
(* action.  The entries are in memory and start empty with the process.    *)
(***************************************************************************)
EXTENDS Integers, FiniteSets, Sequences

CONSTANTS
    Keys,       \* a key is a method, a path and a client address
    Limits,     \* the values of maxRequests tried
    window,     \* in ticks of the clock
    MaxTime     \* bound: the last tick of the clock

ASSUME RateLimiterAssumption ==
    /\ Limits \subseteq Int
    /\ window \in Nat \ {0}
    /\ MaxTime \in Nat

VARIABLES
    maxRequests,  \* as it was configured when the process started
    now,          \* the clock
    entries,      \* entries[k]: the count and the end of the window of key k
    admitted,     \* admitted[k]: the times at which requests of key k passed
    answer        \* the last call: its key, its time and what allow returned

limiterVars == <<maxRequests, now, entries, admitted, answer>>

-------------------------------------------------------------------------------
NoAnswer == [key |-> "none", at |-> 0, allowed |-> TRUE]

LimiterInit ==
    /\ maxRequests \in Limits
    /\ now = 0
    /\ entries = [k \in {} |-> {}]
    /\ admitted = [k \in Keys |-> <<>>]
    /\ answer = NoAnswer

Tick ==
    /\ now < MaxTime
    /\ now' = now + 1
    /\ UNCHANGED <<maxRequests, entries, admitted, answer>>

Over(entry) == entry.resetAt <= now

\* cleanupExpired.
Cleaned == [k \in {k \in DOMAIN entries : ~Over(entries[k])} |-> entries[k]]

Keep(k, entry) == [j \in DOMAIN Cleaned \cup {k} |-> IF j = k THEN entry ELSE Cleaned[j]]

Admit(k, entry) ==
    /\ entries' = Keep(k, entry)
    /\ admitted' = [admitted EXCEPT ![k] = Append(@, now)]
    /\ answer' = [key |-> k, at |-> now, allowed |-> TRUE]
    /\ UNCHANGED <<maxRequests, now>>

\* The key has no window that is still open: one opens.
AllowFirst(k) ==
    /\ maxRequests > 0
    /\ k \in DOMAIN Cleaned => Over(Cleaned[k])
    /\ Admit(k, [count |-> 1, resetAt |-> now + window])

\* Mutant: the count is compared with one too many.
AllowNextOneMore(k) ==
    /\ maxRequests > 0
    /\ k \in DOMAIN Cleaned /\ ~Over(Cleaned[k])
    /\ Cleaned[k].count <= maxRequests
    /\ Admit(k, [Cleaned[k] EXCEPT !.count = @ + 1])

AllowNext(k) ==
    /\ maxRequests > 0
    /\ k \in DOMAIN Cleaned /\ ~Over(Cleaned[k])
    /\ Cleaned[k].count < maxRequests
    /\ Admit(k, [Cleaned[k] EXCEPT !.count = @ + 1])

Refuse(k) ==
    /\ answer' = [key |-> k, at |-> now, allowed |-> FALSE]
    /\ UNCHANGED <<maxRequests, now, admitted>>

\* allow returns before it takes the lock.
DenyAll(k) ==
    /\ maxRequests <= 0
    /\ UNCHANGED entries
    /\ Refuse(k)

Deny(k) ==
    /\ maxRequests > 0
    /\ k \in DOMAIN Cleaned /\ ~Over(Cleaned[k])
    /\ Cleaned[k].count >= maxRequests
    /\ entries' = Cleaned
    /\ Refuse(k)

LimiterNext ==
    \/ Tick
    \/ \E k \in Keys : AllowFirst(k) \/ AllowNext(k) \/ DenyAll(k) \/ Deny(k)

LimiterSpec == LimiterInit /\ [][LimiterNext]_limiterVars

-------------------------------------------------------------------------------
(* Properties. *)

\* How many requests of key k passed in the times of a set.
AdmittedIn(k, times) == Cardinality({i \in DOMAIN admitted[k] : admitted[k][i] \in times})

\* Windows are not aligned with the clock, so the most that any stretch of the
\* length of a window can see is two windows' worth, and never more.  A request
\* is turned away only if as many as are allowed have passed within the length of
\* a window before it: not for old requests, refused ones or those of others.
LimitIsFair ==
    /\ maxRequests > 0 =>
         \A k \in Keys, t \in 0..MaxTime :
           AdmittedIn(k, t..(t + window - 1)) <= 2 * maxRequests
    /\ ~answer.allowed =>
         AdmittedIn(answer.key, (answer.at - window + 1)..answer.at) >= maxRequests
===============================================================================
