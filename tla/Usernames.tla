------------------------------- MODULE Usernames -------------------------------
(***************************************************************************)
(* The names of users: what internal/users makes of a name that a client   *)
(* types, the users it finds by it, exactly or by prefix, and the handler  *)
(* that adds a member to a group by name.  That handler looks the name up  *)
(* in one statement and inserts the member in a later one; in between the  *)
(* name can be given up and taken by somebody else.                        *)
(*                                                                         *)
(* A text is a sequence of characters.  A user stands for an e-mail        *)
(* address; registering is otherwise that of Accounts.                     *)
(***************************************************************************)
EXTENDS Naturals, FiniteSets, Sequences, SequencesExt

CONSTANTS
    Users,
    Groups,
    Owner,            \* Owner[g]: who owns group g
    Texts,            \* what clients type
    NameChars,        \* the characters of [a-z0-9_], in their order, as a sequence
    LowerCase,        \* LowerCase[c]: the lower case of each other character
    MaxSearchResults,
    Requests          \* AddMember handlers that may be under way at one time

ASSUME UsernamesAssumption ==
    /\ Owner \in [Groups -> Users]
    /\ NameChars \in Seq(STRING)
    /\ IsInjective(NameChars)
    /\ {"%", "\\_"} \cap ToSet(NameChars) = {}
    /\ \A text \in Texts : text \in Seq(STRING)
    /\ \A c \in DOMAIN LowerCase : LowerCase[c] \in STRING
    /\ MaxSearchResults \in Nat \ {0}

VARIABLES
    name,      \* name[u]: the username of u, for the users there are
    member,    \* member[g]: the members of group g
    request    \* request[r]: whom the handler r has found, for which group and name

namesVars == <<name, member, request>>

Idle == [stage |-> "idle"]

-------------------------------------------------------------------------------
(* The service: texts. *)

Lower(c) == IF c \in DOMAIN LowerCase THEN LowerCase[c] ELSE c

\* strings.TrimSpace.
Trimmed(text) ==
    LET kept == {i \in DOMAIN text : text[i] # " "}
    IN  IF kept = {} THEN <<>> ELSE SubSeq(text, Min(kept), Max(kept))

\* normalizeUsername.
Normalized(text) == [i \in DOMAIN Trimmed(text) |-> Lower(Trimmed(text)[i])]

OfNameChars(text) == ToSet(text) \subseteq ToSet(NameChars)

\* usernamePattern, and the check of the schema.
ValidName(text) == Len(text) \in 3..30 /\ OfNameChars(text)

\* users_username_unique.
Taken(text) == \E u \in DOMAIN name : name[u] = text

\* The rows of GetUserByUsername.
Bearers(text) == {u \in DOMAIN name : name[u] = text}

\* GetByUsername.
Named(text) == IF ValidName(Normalized(text)) THEN Bearers(Normalized(text)) ELSE {}

-------------------------------------------------------------------------------
(* Searching. *)

\* An element of a pattern is "%", "_", a character with the escape before it, or a
\* character that stands for itself.
Literal(e) == IF e = "\\_" THEN "_" ELSE e

\* One element leads in s from behind its i-th character to behind its k-th.
LeadsTo(s, e, i, k) ==
    \/ e = "%" /\ i <= k
    \/ k = i + 1 /\ (e = "_" \/ s[k] = Literal(e))

\* s LIKE pattern ESCAPE '\': all elements, one after the other, lead to the end.
Like(s, pattern) ==
    LET places[j \in 0..Len(pattern)] ==
          IF j = 0 THEN {0}
          ELSE {k \in 0..Len(s) : \E i \in places[j - 1] : LeadsTo(s, pattern[j], i, k)}
    IN  Len(s) \in places[Len(pattern)]

\* Mutant: an underscore stands for any character.
SearchPatternUnescaped(query) == query \o <<"%">>

\* replace(query, '_', '\_') || '%'.
SearchPattern(query) ==
    [j \in DOMAIN query |-> IF query[j] = "_" THEN "\\_" ELSE query[j]] \o <<"%">>

Rank(c) == CHOOSE i \in DOMAIN NameChars : NameChars[i] = c

\* The order of names.
Before(a, b) ==
    \/ IsStrictPrefix(a, b)
    \/ \E i \in DOMAIN a \cap DOMAIN b :
         Rank(a[i]) < Rank(b[i]) /\ \A j \in 1..(i - 1) : a[j] = b[j]

\* Mutant: the rows come in any order, say the reverse one.
LeadingBackwards(us, limit) ==
    {u \in us : Cardinality({v \in us : Before(name[u], name[v])}) < limit}

\* ORDER BY username ASC LIMIT $2: the rows that fewer than so many come before.
Leading(us, limit) ==
    {u \in us : Cardinality({v \in us : Before(name[v], name[u])}) < limit}

Matching(query) == {u \in DOMAIN name : Like(name[u], SearchPattern(query))}

\* SearchByUsername: the users found, but not the order in which they are shown.
Search(text) ==
    LET query == Normalized(text)
    IN  IF Len(query) < 2 \/ ~OfNameChars(query) THEN {}
        ELSE Leading(Matching(query), MaxSearchResults)

-------------------------------------------------------------------------------
NamesInit ==
    /\ name = [u \in {} |-> <<>>]
    /\ member = [g \in Groups |-> {}]
    /\ request = [r \in Requests |-> Idle]

CreateUser(u, text) ==
    /\ u \notin DOMAIN name
    /\ ~Taken(text)
    /\ name' = [v \in DOMAIN name \cup {u} |-> IF v = u THEN text ELSE name[v]]
    /\ UNCHANGED <<member, request>>

Register(u, text) == ValidName(Normalized(text)) /\ CreateUser(u, Normalized(text))

\* A user may keep the name.
UpdateUserUsername(u, text) ==
    /\ u \in DOMAIN name
    /\ Taken(text) => name[u] = text
    /\ name' = [name EXCEPT ![u] = text]
    /\ UNCHANGED <<member, request>>

UpdateUsername(u, text) ==
    ValidName(Normalized(text)) /\ UpdateUserUsername(u, Normalized(text))

-------------------------------------------------------------------------------
(* GroupHandler.AddMember. *)

\* Mutant: the member is one that the search finds.
FindMemberBySearch(r, g, text) ==
    /\ request[r] = Idle
    /\ \E u \in Search(text) :
         request' = [request EXCEPT ![r] =
                      [stage |-> "found", group |-> g, asked |-> Normalized(text),
                       user |-> u, bearers |-> Bearers(Normalized(text))]]
    /\ UNCHANGED <<name, member>>

\* GetByUsername finds the user, whose id is all that is kept of the answer.  bearers
\* is history: who had the name when it was looked up, whoever was found.
FindMember(r, g, text) ==
    /\ request[r] = Idle
    /\ \E u \in Named(text) :
         request' = [request EXCEPT ![r] =
                      [stage |-> "found", group |-> g, asked |-> Normalized(text),
                       user |-> u, bearers |-> Bearers(Normalized(text))]]
    /\ UNCHANGED <<name, member>>

\* Mutant: the INSERT takes the id of the one who has the name now.
InsertMemberByName(r) ==
    /\ request[r].stage = "found"
    /\ \E u \in Bearers(request[r].asked) \ member[request[r].group] :
         member' = [member EXCEPT ![request[r].group] = @ \cup {u}]
    /\ request' = [request EXCEPT ![r] = Idle]
    /\ UNCHANGED name

\* The owner is asked for, and the user is still there: owners do not change and
\* users are not deleted, so that only the INSERT matters.
InsertMember(r) ==
    /\ request[r].stage = "found"
    /\ request[r].user \notin member[request[r].group]
    /\ member' = [member EXCEPT ![request[r].group] = @ \cup {request[r].user}]
    /\ request' = [request EXCEPT ![r] = Idle]
    /\ UNCHANGED name

\* The caller is not the owner, the user is a member, or a statement fails.
RefuseMember(r) ==
    /\ request[r].stage = "found"
    /\ request' = [request EXCEPT ![r] = Idle]
    /\ UNCHANGED <<name, member>>

-------------------------------------------------------------------------------
NamesNext ==
    \/ \E u \in Users, text \in Texts : Register(u, text) \/ UpdateUsername(u, text)
    \/ \E r \in Requests :
         \/ \E g \in Groups, text \in Texts : FindMember(r, g, text)
         \/ InsertMember(r)
         \/ RefuseMember(r)

NamesSpec == NamesInit /\ [][NamesNext]_namesVars

-------------------------------------------------------------------------------
(* Properties. *)

\* A search finds users whose names begin with what was typed, letter by letter,
\* and leaves one out only when it is full; but never the one whose name was
\* typed whole, however it was typed and however many names begin with it.
SearchIsByPrefix ==
    \A text \in Texts :
      LET begin == Normalized(text)
          found == Search(text)
          due == {u \in DOMAIN name : IsPrefix(begin, name[u])}
      IN  Len(begin) >= 2 =>
            /\ found \subseteq due
            /\ found = due \/ Cardinality(found) = MaxSearchResults
            /\ Named(text) \subseteq found

\* Whoever is added is the one who had the name when the owner's request looked it
\* up, although that name may have passed to another user before the INSERT.
AddedMembersBoreTheName ==
    [][\A g \in Groups : \A u \in member'[g] \ member[g] :
         \E r \in Requests : /\ request[r] # Idle /\ request'[r] = Idle
                             /\ request[r].group = g
                             /\ u \in request[r].bearers]_namesVars
===============================================================================
