------------------------------- MODULE Expenses -------------------------------
(***************************************************************************)
(* internal/groups and internal/expenses: the groups and their members,    *)
(* and the transaction that writes an expense with its participants and    *)
(* the debts it causes.                                                    *)
(*                                                                         *)
(* Expenses.Create validates its input by comparing the texts of user ids, *)
(* while the database compares the UUIDs they are parsed to, and a UUID    *)
(* has several spellings.  Ids are texts here and UserOf parses them.      *)
(*                                                                         *)
(* The transaction is a step per statement, so other requests commit in    *)
(* between; its rows stay in the request until it commits.  AddMember has  *)
(* no transaction: its reads and its INSERT are steps too, and neither has *)
(* Get, which reads an expense in three statements.  The debtors of a new  *)
(* expense are notified after the commit, one by one.                      *)
(*                                                                         *)
(* A debt lives on: its debtor may reject it, and the group's owner sends  *)
(* it back, with another amount if he likes.  That much of internal/debts  *)
(* is here, for Get reads the amount of the moment; Ledger has the rest,   *)
(* which only puts an end to these changes.                                *)
(***************************************************************************)
EXTENDS Money, FiniteSets, Functions

CONSTANTS
    Users,        \* the registered users; nobody is ever deleted
    Ids,          \* texts that name users
    UserOf,       \* UserOf[id]: the user that id is parsed to
    Groups,
    ExpenseIds,   \* the ids the expenses table has room for
    Inputs,       \* the bodies of create requests
    Rejecters,    \* the users who ever reject a debt
    Adjustments,  \* the amounts that an owner may put in a review
    Requests      \* requests that may be under way at one time

ASSUME ExpensesAssumption ==
    /\ UserOf \in [Ids -> Users]
    /\ Rejecters \subseteq Users
    /\ Adjustments \subseteq 1..MaxInt
    /\ \A input \in Inputs :
         /\ input.group \in Groups
         /\ input.createdBy \in Users
         /\ input.paidBy \in Ids
         /\ input.splitType \in {"equal", "manual"}
         /\ input.total \in Int64
         /\ input.participants \in Seq(Ids)
         /\ input.shares \in Seq(Int64)
         /\ DOMAIN input.shares = DOMAIN input.participants

VARIABLES
    member,       \* member[g]: the role of each member of group g
    createdBy,    \* createdBy[g]: the user who created group g, once it exists
    expense,      \* expense[e]: the row of expense e, for the ids in use
    participant,  \* the rows of expense_participants
    debt,         \* the rows of debts; "pending" stands for any status but "rejected"
    resent,       \* history: the amounts that reviews have put in place of others
    told,         \* the notifications of new debts
    lost,         \* history: those that were due and will not be written
    request       \* request[r]: the request r and its uncommitted work

groups == <<member, createdBy>>
owed == <<debt, resent>>
notices == <<told, lost>>
vars == <<groups, expense, participant, owed, notices, request>>

-------------------------------------------------------------------------------
Idle == [kind |-> "idle"]

Roles == {"owner", "member"}

IsGroupMember(g, u) == u \in DOMAIN member[g]

IsGroupOwner(g, u) == u \in DOMAIN member[g] /\ member[g][u] = "owner"

Init ==
    /\ member = [g \in Groups |-> [u \in {} |-> {}]]
    /\ createdBy = [g \in {} |-> {}]
    /\ expense = [e \in {} |-> {}]
    /\ participant = {}
    /\ debt = {} /\ resent = {}
    /\ told = {} /\ lost = {}
    /\ request = [r \in Requests |-> Idle]

-------------------------------------------------------------------------------
(* Groups. *)

\* The group and its owner are committed together.
CreateGroup(g, u) ==
    /\ g \notin DOMAIN createdBy
    /\ createdBy' = [h \in DOMAIN createdBy \cup {g} |-> IF h = g THEN u ELSE createdBy[h]]
    /\ member' = [member EXCEPT ![g] = [v \in {u} |-> "owner"]]
    /\ UNCHANGED <<expense, participant, owed, notices, request>>

\* The reads that open AddMember.
AddMemberBegin(r, g, owner, u) ==
    /\ request[r] = Idle
    /\ IsGroupOwner(g, owner)
    /\ request' = [request EXCEPT ![r] = [kind |-> "addMember", group |-> g, user |-> u]]
    /\ UNCHANGED <<groups, expense, participant, owed, notices>>

\* CreateGroupMember; a violation of UNIQUE (group_id, user_id) is ErrMemberConflict.
AddMemberInsert(r) ==
    /\ request[r].kind = "addMember"
    /\ LET g == request[r].group
           u == request[r].user
       IN  /\ ~IsGroupMember(g, u)
           /\ member' = [member EXCEPT ![g] = [v \in DOMAIN @ \cup {u} |->
                                                 IF v = u THEN "member" ELSE @[v]]]
    /\ request' = [request EXCEPT ![r] = Idle]
    /\ UNCHANGED <<createdBy, expense, participant, owed, notices>>

-------------------------------------------------------------------------------
(* Expenses. *)

Distinct(list) == \A i, j \in DOMAIN list : list[i] = list[j] => i = j

\* The shares that buildParticipantShares returns, by position.
Shares(input) ==
    IF input.splitType = "equal"
    THEN SplitEqual(input.total, Len(input.participants)).value
    ELSE input.shares

\* validateCreateInput and buildParticipantShares find nothing wrong.
ValidInput(input) ==
    /\ input.total > 0
    /\ input.participants # <<>>
    /\ Distinct(input.participants)
    /\ \E i \in DOMAIN input.participants : input.participants[i] # input.paidBy
    /\ IF input.splitType = "equal"
       THEN SplitEqual(input.total, Len(input.participants)).err = "nil"
       ELSE ValidateManualSplit(input.total, input.shares) = "nil"

\* The transaction begins with a check of the creator.
CreateBegin(r, input) ==
    /\ request[r] = Idle
    /\ ValidInput(input)
    /\ IsGroupMember(input.group, input.createdBy)
    /\ request' = [request EXCEPT ![r] =
                     [kind |-> "create", stage |-> "payer", input |-> input, unchecked |-> {},
                      expense |-> 0, done |-> 0, participants |-> {}, debts |-> {}]]
    /\ UNCHANGED <<groups, expense, participant, owed, notices>>

CheckPayer(r) ==
    /\ request[r].kind = "create" /\ request[r].stage = "payer"
    /\ LET input == request[r].input
       IN  /\ IsGroupMember(input.group, UserOf[input.paidBy])
           /\ request' = [request EXCEPT
                ![r].stage = "participants",
                ![r].unchecked = {input.participants[i] : i \in DOMAIN input.participants}]
    /\ UNCHANGED <<groups, expense, participant, owed, notices>>

\* Mutant: the payer is checked again in place of the participant.
CheckPayerAgain(r) ==
    /\ request[r].kind = "create" /\ request[r].stage = "participants"
    /\ \E id \in request[r].unchecked :
         /\ IsGroupMember(request[r].input.group, UserOf[request[r].input.paidBy])
         /\ request' = [request EXCEPT ![r].unchecked = @ \ {id}]
    /\ UNCHANGED <<groups, expense, participant, owed, notices>>

\* participantIDs is a Go map: its order is not fixed.
CheckParticipant(r) ==
    /\ request[r].kind = "create" /\ request[r].stage = "participants"
    /\ \E id \in request[r].unchecked :
         /\ IsGroupMember(request[r].input.group, UserOf[id])
         /\ request' = [request EXCEPT ![r].unchecked = @ \ {id}]
    /\ UNCHANGED <<groups, expense, participant, owed, notices>>

\* CreateExpense.
InsertExpense(r) ==
    /\ request[r].kind = "create" /\ request[r].stage = "participants"
    /\ request[r].unchecked = {}
    /\ \E e \in ExpenseIds \ DOMAIN expense :
         /\ \A s \in Requests : request[s].kind = "create" => request[s].expense # e
         /\ request' = [request EXCEPT ![r].stage = "rows", ![r].expense = e]
    /\ UNCHANGED <<groups, expense, participant, owed, notices>>

\* CHECK (debtor_id <> creditor_id) of debts.
NoSelfDebt(row) == row.debtor # row.creditor

\* CreateExpenseParticipant and CreateDebt for the next participant, under the
\* UNIQUE and CHECK constraints of their tables.
InsertParticipant(r) ==
    /\ request[r].kind = "create" /\ request[r].stage = "rows"
    /\ LET req == request[r]
           i == req.done + 1
           id == req.input.participants[i]
           payer == UserOf[req.input.paidBy]
           row == [expense |-> req.expense, user |-> UserOf[id], share |-> Shares(req.input)[i]]
           debts == IF id = req.input.paidBy THEN {}
                    ELSE {[expense |-> req.expense, debtor |-> UserOf[id], creditor |-> payer,
                           amount |-> row.share, status |-> "pending"]}
       IN  /\ i \in DOMAIN req.input.participants
           /\ \A other \in req.participants : other.user # row.user
           /\ \A d \in debts : NoSelfDebt(d)
           /\ request' = [request EXCEPT ![r].done = i,
                                         ![r].participants = @ \cup {row},
                                         ![r].debts = @ \cup debts]
    /\ UNCHANGED <<groups, expense, participant, owed, notices>>

DebtNotices(debts) == {[expense |-> d.expense, to |-> d.debtor] : d \in debts}

\* Service.Create still has to notify these debtors.
Announcing(todo) ==
    IF todo = {} THEN Idle ELSE [kind |-> "announce", todo |-> todo]

Due(r) == IF request[r].kind = "announce" THEN request[r].todo ELSE {}

\* Mutant: the transaction is committed after every row.
CommitEarly(r) ==
    /\ request[r].kind = "create" /\ request[r].stage = "rows"
    /\ LET req == request[r]
       IN  /\ expense' = [e \in DOMAIN expense \cup {req.expense} |->
                            IF e = req.expense
                            THEN [group |-> req.input.group, total |-> req.input.total,
                                  paidBy |-> UserOf[req.input.paidBy],
                                  createdBy |-> req.input.createdBy]
                            ELSE expense[e]]
           /\ participant' = participant \cup req.participants
           /\ debt' = debt \cup req.debts
           /\ request' = [request EXCEPT ![r] = Announcing(DebtNotices(req.debts))]
    /\ UNCHANGED <<groups, resent, notices>>

CommitExpense(r) ==
    /\ request[r].kind = "create" /\ request[r].stage = "rows"
    /\ LET req == request[r]
       IN  /\ req.done = Len(req.input.participants)
           /\ expense' = [e \in DOMAIN expense \cup {req.expense} |->
                            IF e = req.expense
                            THEN [group |-> req.input.group, total |-> req.input.total,
                                  paidBy |-> UserOf[req.input.paidBy],
                                  createdBy |-> req.input.createdBy]
                            ELSE expense[e]]
           /\ participant' = participant \cup req.participants
           /\ debt' = debt \cup req.debts
           /\ request' = [request EXCEPT ![r] = Announcing(DebtNotices(req.debts))]
    /\ UNCHANGED <<groups, resent, notices>>

\* createNotification for one debt; the order of the debts is left open.
Announce(r) ==
    \E notice \in Due(r) :
      /\ told' = told \cup {notice}
      /\ request' = [request EXCEPT ![r] = Announcing(Due(r) \ {notice})]
      /\ UNCHANGED <<groups, expense, participant, owed, lost>>

\* Mutant: the first error ends the loop.
AnnounceFailsAndStops(r) ==
    \E notice \in Due(r) :
      /\ lost' = lost \cup {notice}
      /\ request' = [request EXCEPT ![r] = Idle]
      /\ UNCHANGED <<groups, expense, participant, owed, told>>

\* An error there is ignored, and the next debtor is notified.
AnnounceFails(r) ==
    \E notice \in Due(r) :
      /\ lost' = lost \cup {notice}
      /\ request' = [request EXCEPT ![r] = Announcing(Due(r) \ {notice})]
      /\ UNCHANGED <<groups, expense, participant, owed, told>>

\* A failed check or constraint, a cancelled request or a crash: the
\* transaction leaves nothing, and so does an AddMember before its INSERT.
\* A request that has only read answers.
Abandon(r) ==
    /\ request[r] # Idle
    /\ request' = [request EXCEPT ![r] = Idle]
    /\ lost' = lost \cup Due(r)
    /\ UNCHANGED <<groups, expense, participant, owed, told>>

-------------------------------------------------------------------------------
(* Debts. *)

RejectDebt(d, u) ==
    /\ u = d.debtor
    /\ d.status = "pending"
    /\ debt' = (debt \ {d}) \cup {[d EXCEPT !.status = "rejected"]}
    /\ UNCHANGED <<groups, expense, participant, resent, notices, request>>

Adjusted(d, amount) == [expense |-> d.expense, debtor |-> d.debtor, amount |-> amount]

\* Mutant: the UPDATE asks for the expense only, and takes every rejected debt of it.
ReviewRejectedDebts(d, u, amount) ==
    /\ IsGroupOwner(expense[d.expense].group, u)
    /\ d.status = "rejected"
    /\ LET rejected == {c \in debt : c.expense = d.expense /\ c.status = "rejected"}
       IN  debt' = (debt \ rejected)
                     \cup {[c EXCEPT !.status = "pending", !.amount = amount] : c \in rejected}
    /\ resent' = resent \cup (IF amount = d.amount THEN {} ELSE {Adjusted(d, amount)})
    /\ UNCHANGED <<groups, expense, participant, notices, request>>

\* amount is the adjusted amount or, when the owner sends none, that of the row.
ReviewRejectedDebt(d, u, amount) ==
    /\ IsGroupOwner(expense[d.expense].group, u)
    /\ d.status = "rejected"
    /\ debt' = (debt \ {d}) \cup {[d EXCEPT !.status = "pending", !.amount = amount]}
    /\ resent' = resent \cup (IF amount = d.amount THEN {} ELSE {Adjusted(d, amount)})
    /\ UNCHANGED <<groups, expense, participant, notices, request>>

-------------------------------------------------------------------------------
(* Repository.Get: three statements. *)

\* GetExpenseForUser.
GetExpense(r, e, u) ==
    /\ request[r] = Idle
    /\ e \in DOMAIN expense
    /\ IsGroupMember(expense[e].group, u)
    /\ request' = [request EXCEPT ![r] =
                     [kind |-> "get", stage |-> "participants", expense |-> e, user |-> u,
                      row |-> expense[e], participants |-> {}, debts |-> {}]]
    /\ UNCHANGED <<groups, expense, participant, owed, notices>>

\* ListExpenseParticipants.
GetParticipants(r) ==
    /\ request[r].kind = "get" /\ request[r].stage = "participants"
    /\ request' = [request EXCEPT
         ![r].stage = "debts",
         ![r].participants = {row \in participant : row.expense = request[r].expense}]
    /\ UNCHANGED <<groups, expense, participant, owed, notices>>

\* Mutant: only the caller's own debts are listed.
GetDebtsOfCaller(r) ==
    /\ request[r].kind = "get" /\ request[r].stage = "debts"
    /\ request' = [request EXCEPT
         ![r].stage = "done",
         ![r].debts = {row \in debt : /\ row.expense = request[r].expense
                                     /\ request[r].user \in {row.debtor, row.creditor}}]
    /\ UNCHANGED <<groups, expense, participant, owed, notices>>

\* ListDebtsByExpense.
GetDebts(r) ==
    /\ request[r].kind = "get" /\ request[r].stage = "debts"
    /\ request' = [request EXCEPT
         ![r].stage = "done",
         ![r].debts = {row \in debt : row.expense = request[r].expense}]
    /\ UNCHANGED <<groups, expense, participant, owed, notices>>

-------------------------------------------------------------------------------
GroupStep ==
    \/ \E g \in Groups, u \in Users : CreateGroup(g, u)
    \/ \E r \in Requests :
         \/ \E g \in Groups, owner, u \in Users : AddMemberBegin(r, g, owner, u)
         \/ AddMemberInsert(r)

CreateStep ==
    \E r \in Requests :
      \/ \E input \in Inputs : CreateBegin(r, input)
      \/ CheckPayer(r)
      \/ CheckParticipant(r)
      \/ InsertExpense(r)
      \/ InsertParticipant(r)
      \/ CommitExpense(r)
      \/ Announce(r)
      \/ AnnounceFails(r)
      \/ Abandon(r)

GetStep ==
    \E r \in Requests :
      \/ \E e \in ExpenseIds, u \in Users : GetExpense(r, e, u)
      \/ GetParticipants(r)
      \/ GetDebts(r)

DebtStep ==
    \E d \in debt :
      \/ \E u \in Rejecters : RejectDebt(d, u)
      \/ \E u \in Users, amount \in Adjustments \cup {d.amount} : ReviewRejectedDebt(d, u, amount)

Next == GroupStep \/ CreateStep \/ DebtStep \/ GetStep

Spec == Init /\ [][Next]_vars

-------------------------------------------------------------------------------
(* Properties. *)

\* Shares counted unit by unit.
SumOfShares(rows) ==
    Cardinality({u \in rows \X (1..MaxInt) : u[2] <= u[1].share})

\* The amount of debt d is the share it was made for, unless a review has set it.
Agreed(d, share) == d.amount = share \/ Adjusted(d, d.amount) \in resent

\* The shares of expense e add up to the total of its row and nobody has two; everyone
\* but the payer owes the payer, once, and it is his share or what a review made of it.
Whole(e, row, participants, debts) ==
    /\ SumOfShares(participants) = row.total
    /\ \A p, q \in participants : p.user = q.user => p = q
    /\ \A c, d \in debts : c.debtor = d.debtor => c = d
    /\ {<<d.expense, d.debtor, d.creditor>> : d \in debts}
         = {<<e, p.user, row.paidBy>> : p \in {p \in participants : p.user # row.paidBy}}
    /\ \A d \in debts, p \in participants : p.user = d.debtor => Agreed(d, p.share)
    /\ debts # {}

ParticipantsOf(e) == {row \in participant : row.expense = e}
DebtsOf(e) == {row \in debt : row.expense = e}

\* An expense is visible only whole, whatever was cancelled or crashed: no row
\* is left of one that did not commit, and what is there fits together in every
\* spelling of the ids that got through.  So does what Get puts together from
\* three statements, although expenses are committed and debts reviewed between
\* them: shares and debts differ only where a review has set the amount.
ExpensesAreWhole ==
    /\ \A row \in participant \cup debt : row.expense \in DOMAIN expense
    /\ \A e \in DOMAIN expense : Whole(e, expense[e], ParticipantsOf(e), DebtsOf(e))
    /\ \A r \in Requests :
         request[r].kind = "get" /\ request[r].stage = "done" =>
           Whole(request[r].expense, request[r].row, request[r].participants, request[r].debts)

\* Every debt that an expense causes is announced to its debtor once, or lost for
\* a failure after the commit, and no debt that was not committed is announced.
DebtorsAreTold ==
    /\ DebtNotices(debt) = told \cup lost \cup UNION {Due(r) : r \in Requests}
    /\ told \cap lost = {}
    /\ \A r \in Requests : Due(r) \cap (told \cup lost) = {}

\* Everyone who owes, is owed or wrote down an expense belongs to its group:
\* members were checked one at a time while others were being added.
OnlyMembersShare ==
    \A e \in DOMAIN expense :
      {expense[e].paidBy, expense[e].createdBy} \cup {row.user : row \in ParticipantsOf(e)}
        \subseteq DOMAIN member[expense[e].group]
===============================================================================
