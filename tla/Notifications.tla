----------------------------- MODULE Notifications -----------------------------
(***************************************************************************)
(* internal/notifications: the notifications table, the calls of Service   *)
(* that change it, and the Hub that fans events out to the WebSocket       *)
(* connections of the user they are for.                                   *)
(*                                                                         *)
(* A call runs in the goroutine of its request: it writes the table,       *)
(* counts the unread rows in a second statement, copies the user's clients *)
(* under the hub's read lock and then sends to one after the other with no *)
(* lock held.  Every connection has a goroutine of its own, which          *)
(* subscribes, waits for the connection to fail and unsubscribes.          *)
(*                                                                         *)
(* The text of a notification and the unread count are left out: the count *)
(* an event carries is only as fresh as its own SELECT.                    *)
(***************************************************************************)
EXTENDS FiniteSets

CONSTANTS
    Users,
    Clients,     \* WebSocket connections
    Owner,       \* Owner[c]: the user who opened connection c
    Ids,         \* the ids the notifications table has room for
    Requests     \* calls that may be under way at one time

ASSUME NotificationsAssumption == Owner \in [Clients -> Users]

VARIABLES
    notification,  \* notification[n]: the row of notification n, for the ids in use
    hub,           \* hub[u]: the clients of user u, for the users who have an entry
    handler,       \* handler[c]: how far the goroutine of connection c has come
    up,            \* the connections that work
    received,      \* received[c]: the events that reached client c, till it leaves
    request        \* request[r]: the call r

vars == <<notification, hub, handler, up, received, request>>
connections == <<hub, handler, up>>

-------------------------------------------------------------------------------
Idle == [stage |-> "idle"]

Kinds == {"notification.created", "notification.read", "notifications.read_all"}

\* notifications.read_all carries no notification.
NoId == "none"

Subscribed(u) == IF u \in DOMAIN hub THEN hub[u] ELSE {}

\* Mutant: the entry goes with the first client that leaves.
WithoutEntry(u, c) == [v \in DOMAIN hub \ {u} |-> hub[v]]

\* Hub.remove, and the function that Subscribe returns: the entry of a user
\* goes with the last client.
Without(u, c) ==
    LET left == Subscribed(u) \ {c}
    IN  [v \in {v \in DOMAIN hub : v = u => left # {}} |-> IF v = u THEN left ELSE hub[v]]

Init ==
    /\ notification = [n \in {} |-> {}]
    /\ hub = [u \in {} |-> {}]
    /\ handler = [c \in Clients |-> "new"]
    /\ up = {}
    /\ received = [c \in Clients |-> {}]
    /\ request = [r \in Requests |-> Idle]

-------------------------------------------------------------------------------
(* The connections. *)

Accept(c) ==
    /\ handler[c] = "new"
    /\ handler' = [handler EXCEPT ![c] = "accepted"]
    /\ up' = up \cup {c}
    /\ UNCHANGED <<notification, hub, received, request>>

Subscribe(c) ==
    /\ handler[c] = "accepted"
    /\ handler' = [handler EXCEPT ![c] = "subscribed"]
    /\ hub' = [u \in DOMAIN hub \cup {Owner[c]} |->
                 IF u = Owner[c] THEN Subscribed(u) \cup {c} ELSE hub[u]]
    /\ UNCHANGED <<notification, up, received, request>>

\* The client goes away or the network fails.
Break(c) ==
    /\ c \in up
    /\ up' = up \ {c}
    /\ UNCHANGED <<notification, hub, handler, received, request>>

\* Mutant: the handler ends without calling unsubscribe.
LeaveSubscribed(c) ==
    /\ handler[c] = "subscribed"
    /\ c \notin up
    /\ handler' = [handler EXCEPT ![c] = "done"]
    /\ received' = [received EXCEPT ![c] = {}]
    /\ UNCHANGED <<notification, hub, up, request>>

\* conn.Read fails: the deferred unsubscribe and Close run.
Leave(c) ==
    /\ handler[c] = "subscribed"
    /\ c \notin up
    /\ handler' = [handler EXCEPT ![c] = "done"]
    /\ hub' = Without(Owner[c], c)
    /\ received' = [received EXCEPT ![c] = {}]
    /\ UNCHANGED <<notification, up, request>>

-------------------------------------------------------------------------------
(* The calls. *)

\* present: who listened when the table changed; clients and sent: the copy that
\* Publish makes and how far its loop has come.
Started(kind, user, id) ==
    [stage |-> "count", kind |-> kind, user |-> user, id |-> id,
     present |-> Subscribed(user), clients |-> {}, sent |-> {}]

Event(req) == [kind |-> req.kind, id |-> req.id]

Create(r, u) ==
    /\ request[r] = Idle
    /\ \E n \in Ids \ DOMAIN notification :
         /\ notification' = [m \in DOMAIN notification \cup {n} |->
                               IF m = n THEN [user |-> u, read |-> FALSE] ELSE notification[m]]
         /\ request' = [request EXCEPT ![r] = Started("notification.created", u, n)]
    /\ UNCHANGED <<connections, received>>

MarkRead(r, u, n) ==
    /\ request[r] = Idle
    /\ n \in DOMAIN notification
    /\ notification[n].user = u
    /\ notification' = [notification EXCEPT ![n].read = TRUE]
    /\ request' = [request EXCEPT ![r] = Started("notification.read", u, n)]
    /\ UNCHANGED <<connections, received>>

MarkAllRead(r, u) ==
    /\ request[r] = Idle
    /\ notification' = [n \in DOMAIN notification |->
                          [notification[n] EXCEPT !.read = @ \/ notification[n].user = u]]
    /\ request' = [request EXCEPT ![r] = Started("notifications.read_all", u, NoId)]
    /\ UNCHANGED <<connections, received>>

\* The second statement succeeds, and Publish is called.
CountUnread(r) ==
    /\ request[r].stage = "count"
    /\ request' = [request EXCEPT ![r].stage = "publish"]
    /\ UNCHANGED <<notification, connections, received>>

\* The second statement fails: the row stays and nothing is published.
CountFails(r) ==
    /\ request[r].stage = "count"
    /\ request' = [request EXCEPT ![r] = Idle]
    /\ UNCHANGED <<notification, connections, received>>

CopyClients(r) ==
    /\ request[r].stage = "publish"
    /\ request' = [request EXCEPT ![r].stage = "send",
                                  ![r].clients = Subscribed(request[r].user)]
    /\ UNCHANGED <<notification, connections, received>>

Unsent(r) == IF request[r].stage = "send" THEN request[r].clients \ request[r].sent ELSE {}

Send(r) ==
    /\ \E c \in Unsent(r) \cap up :
         /\ received' = [received EXCEPT ![c] = @ \cup {Event(request[r])}]
         /\ request' = [request EXCEPT ![r].sent = @ \cup {c}]
    /\ UNCHANGED <<notification, connections>>

\* Mutant: Publish returns at the first client that fails.
SendFailsAndStops(r) ==
    /\ \E c \in Unsent(r) :
         /\ up' = up \ {c}
         /\ hub' = Without(Owner[c], c)
         /\ request' = [request EXCEPT ![r].sent = request[r].clients]
    /\ UNCHANGED <<notification, handler, received>>

\* Mutant: Publish tries a client that failed again.
SendFailsAndRetries(r) ==
    /\ \E c \in Unsent(r) :
         /\ up' = up \ {c}
         /\ hub' = Without(Owner[c], c)
    /\ UNCHANGED <<notification, handler, received, request>>

\* Mutant: a send has no deadline and fails only on a broken connection.
SendFailsBroken(r) ==
    /\ \E c \in Unsent(r) \ up :
         /\ up' = up \ {c}
         /\ hub' = Without(Owner[c], c)
         /\ request' = [request EXCEPT ![r].sent = @ \cup {c}]
    /\ UNCHANGED <<notification, handler, received>>

\* The connection is broken or the five seconds are over: the library closes
\* the connection and the hub forgets the client.
SendFails(r) ==
    /\ \E c \in Unsent(r) :
         /\ up' = up \ {c}
         /\ hub' = Without(Owner[c], c)
         /\ request' = [request EXCEPT ![r].sent = @ \cup {c}]
    /\ UNCHANGED <<notification, handler, received>>

Return(r) ==
    /\ request[r].stage = "send"
    /\ Unsent(r) = {}
    /\ request' = [request EXCEPT ![r] = Idle]
    /\ UNCHANGED <<notification, connections, received>>

-------------------------------------------------------------------------------
\* The process dies: the rows are all that is left.
Crash ==
    /\ hub' = [u \in {} |-> {}]
    /\ handler' = [c \in Clients |-> IF handler[c] = "new" THEN "new" ELSE "done"]
    /\ up' = {}
    /\ received' = [c \in Clients |-> {}]
    /\ request' = [r \in Requests |-> Idle]
    /\ UNCHANGED notification

Connection(c) == Accept(c) \/ Subscribe(c) \/ Break(c) \/ Leave(c)

StartCall(r) ==
    \E u \in Users :
      \/ Create(r, u)
      \/ \E n \in Ids : MarkRead(r, u, n)
      \/ MarkAllRead(r, u)

Proceed(r) ==
    \/ CountUnread(r)
    \/ CountFails(r)
    \/ CopyClients(r)
    \/ SendFails(r)
    \/ Return(r)

ContinueCall(r) == Proceed(r) \/ Send(r)

Next ==
    \/ \E c \in Clients : Connection(c)
    \/ \E r \in Requests : StartCall(r) \/ ContinueCall(r)
    \/ Crash

\* What a call can do without its clients, a goroutine that can run does.  Whether a
\* send succeeds is up to the client, who may never read: nothing is assumed of
\* Send, only that its five seconds pass.
Fairness == \A r \in Requests : WF_vars(Proceed(r))

SafetySpec == Init /\ [][Next]_vars

Spec == SafetySpec /\ Fairness

-------------------------------------------------------------------------------
(* Properties. *)

\* The hub lists the connections that its handlers wait on, each under its own
\* user, and keeps no empty entry.  One that works is never missing, whoever else
\* of its user comes, leaves or fails at the same time.
HubIsExact ==
    /\ \A u \in DOMAIN hub : hub[u] # {}
    /\ \A u \in Users :
         LET waiting == {c \in Clients : Owner[c] = u /\ handler[c] = "subscribed"}
         IN  Subscribed(u) \subseteq waiting /\ waiting \cap up \subseteq Subscribed(u)

\* A call that publishes to the end has reached every client that listened
\* when the table changed and still listens, whatever happened to the others.
NobodySkipped ==
    [][\A r \in Requests :
         (request[r].stage = "send" /\ request'[r] = Idle /\ hub' = hub) =>
           \A c \in request[r].present \cap Subscribed(request[r].user) :
             Event(request[r]) \in received[c]]_vars

\* Every call ends, although its clients may be gone, or connected and never read.
CallsEnd == \A r \in Requests : request[r] # Idle ~> request[r] = Idle
===============================================================================
