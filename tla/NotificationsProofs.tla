------------------------- MODULE NotificationsProofs --------------------------
(***************************************************************************)
(* Theorems about Notifications, for any users, connections, rows and      *)
(* calls: what the hub lists (HubIsExact) and that a call that publishes   *)
(* to the end has skipped nobody (NobodySkipped).  Neither needs fairness, *)
(* so both are proved of SafetySpec.                                       *)
(***************************************************************************)
EXTENDS Notifications, TLAPS

Stages == {"new", "accepted", "subscribed", "done"}

\* The connections that were in the hub at some time.
Listened == {c \in Clients : handler[c] \in {"subscribed", "done"}}

Call == [stage : {"count", "publish", "send"}, kind : Kinds, user : Users,
         id : Ids \cup {NoId}, present : SUBSET Clients, clients : SUBSET Clients,
         sent : SUBSET Clients]

TypeOK ==
    /\ hub \in [DOMAIN hub -> SUBSET Clients]
    /\ DOMAIN hub \subseteq Users
    /\ handler \in [Clients -> Stages]
    /\ up \subseteq Clients
    /\ received = [c \in Clients |-> received[c]]
    /\ DOMAIN notification \subseteq Ids
    /\ request \in [Requests -> Call \cup {Idle}]

\* A call knows only connections that have listened.  Those that listened when the
\* table changed and still do are in the copy, once it is made, for nobody who
\* leaves comes back; and those of the copy that were served have the event,
\* unless they have left.
Serves(r) ==
    LET req == request[r]
        listening == Subscribed(req.user)
    IN  request[r] # Idle =>
          /\ req.present \cup req.clients \cup req.sent \subseteq Listened
          /\ req.stage = "send" => req.present \cap listening \subseteq req.clients
          /\ \A c \in req.sent \cap listening : Event(req) \in received[c]

IInv == TypeOK /\ HubIsExact /\ \A r \in Requests : Serves(r)

-------------------------------------------------------------------------------
(* The hub. *)

\* A client that is removed leaves the others where they are.
LEMMA Removes ==
  ASSUME TypeOK, NEW w, NEW c, hub' = Without(w, c)
  PROVE  /\ hub' \in [DOMAIN hub' -> SUBSET Clients] /\ DOMAIN hub' \subseteq DOMAIN hub
         /\ (\A u \in DOMAIN hub : hub[u] # {}) => \A u \in DOMAIN hub' : hub'[u] # {}
         /\ \A u : Subscribed(u)' = IF u = w THEN Subscribed(u) \ {c} ELSE Subscribed(u)
<1>1. /\ DOMAIN hub' = {v \in DOMAIN hub : v = w => Subscribed(w) \ {c} # {}}
      /\ \A v \in DOMAIN hub' : hub'[v] = IF v = w THEN Subscribed(w) \ {c} ELSE hub[v]
      /\ hub' = [v \in DOMAIN hub' |-> hub'[v]]
  BY DEF Without
<1>2. \A v \in DOMAIN hub : Subscribed(v) = hub[v] /\ hub[v] \in SUBSET Clients
  BY DEF TypeOK, Subscribed
<1>3. hub' \in [DOMAIN hub' -> SUBSET Clients] /\ DOMAIN hub' \subseteq DOMAIN hub
  BY <1>1, <1>2
<1>4. (\A u \in DOMAIN hub : hub[u] # {}) => \A u \in DOMAIN hub' : hub'[u] # {}
  BY <1>1
<1>5. \A u : Subscribed(u)' = IF u = w THEN Subscribed(u) \ {c} ELSE Subscribed(u)
  BY <1>1 DEF Subscribed
<1> QED
  BY <1>3, <1>4, <1>5

\* A connection keeps the hub exact.  To the calls it adds nobody who has listened
\* before, and it takes no event from anybody who stays.
LEMMA ConnectionKeepsHub ==
  ASSUME TypeOK, HubIsExact, NEW c \in Clients, Connection(c)
  PROVE  /\ HubIsExact'
         /\ hub' \in [DOMAIN hub' -> SUBSET Clients] /\ DOMAIN hub' \subseteq Users
         /\ handler' \in [Clients -> Stages] /\ up' \subseteq Clients
         /\ Listened \subseteq Listened'
         /\ \A u \in Users : Subscribed(u)' \cap Listened \subseteq Subscribed(u)
         /\ \A d \in Clients : \/ received'[d] = received[d]
                               \/ \A u \in Users : d \notin Subscribed(u)'
<1>1. CASE Accept(c)
  <2>1. Listened' = Listened /\ \A u : Subscribed(u)' = Subscribed(u)
    BY <1>1 DEF Accept, Listened, Subscribed, TypeOK
  <2>2. \A d \in Clients : handler'[d] = "subscribed" <=> handler[d] = "subscribed"
    BY <1>1 DEF Accept, TypeOK
  <2>3. up' = up \cup {c} /\ handler[c] # "subscribed" /\ hub' = hub /\ received' = received
    BY <1>1 DEF Accept
  <2>4. HubIsExact'
    BY <2>1, <2>2, <2>3 DEF HubIsExact
  <2>5. hub' \in [DOMAIN hub' -> SUBSET Clients] /\ DOMAIN hub' \subseteq Users
    BY <2>3 DEF TypeOK
  <2>6. handler' \in [Clients -> Stages] /\ up' \subseteq Clients
    BY <1>1, <2>3 DEF Accept, TypeOK, Stages
  <2> QED
    BY <2>1, <2>3, <2>4, <2>5, <2>6
<1>2. CASE Subscribe(c)
  <2>1. /\ Owner[c] \in Users /\ handler[c] = "accepted"
        /\ handler' = [handler EXCEPT ![c] = "subscribed"]
        /\ up' = up /\ received' = received
    BY <1>2, NotificationsAssumption DEF Subscribe
  <2>2. /\ DOMAIN hub' = DOMAIN hub \cup {Owner[c]}
        /\ \A u \in DOMAIN hub' :
             hub'[u] = IF u = Owner[c] THEN Subscribed(u) \cup {c} ELSE hub[u]
    BY <1>2 DEF Subscribe
  <2>a. /\ hub'[Owner[c]] = Subscribed(Owner[c]) \cup {c}
        /\ \A u \in DOMAIN hub' : u # Owner[c] => u \in DOMAIN hub /\ hub'[u] = hub[u]
    BY <2>2
  <2>3. \A u : Subscribed(u)' = IF u = Owner[c] THEN Subscribed(u) \cup {c} ELSE Subscribed(u)
    BY <2>2 DEF Subscribed
  <2>4. \A d \in Clients : handler'[d] = "subscribed" <=> (d = c \/ handler[d] = "subscribed")
    BY <2>1 DEF TypeOK
  <2>5. HubIsExact'
    <3>1. ASSUME NEW u \in DOMAIN hub' PROVE hub'[u] # {}
      <4>1. CASE u = Owner[c]
        BY <2>a, <4>1
      <4>2. CASE u # Owner[c]
        BY <2>a, <4>2 DEF HubIsExact
      <4> QED
        BY <4>1, <4>2
    <3>2. ASSUME NEW u \in Users
          PROVE  LET waiting == {d \in Clients : Owner[d] = u /\ handler'[d] = "subscribed"}
                 IN  /\ Subscribed(u)' \subseteq waiting
                     /\ waiting \cap up' \subseteq Subscribed(u)'
      BY <2>1, <2>3, <2>4 DEF HubIsExact
    <3> QED
      BY <3>1, <3>2 DEF HubIsExact
  <2>6. hub' \in [DOMAIN hub' -> SUBSET Clients] /\ DOMAIN hub' \subseteq Users
    <3>1. \A u \in DOMAIN hub : hub[u] \in SUBSET Clients
      BY DEF TypeOK
    <3>2. Subscribed(Owner[c]) \in SUBSET Clients
      BY <3>1 DEF Subscribed
    <3>3. \A u \in DOMAIN hub' : hub'[u] \in SUBSET Clients
      <4> SUFFICES ASSUME NEW u \in DOMAIN hub' PROVE hub'[u] \in SUBSET Clients
        OBVIOUS
      <4>1. CASE u = Owner[c]
        BY <2>a, <3>2, <4>1
      <4>2. CASE u # Owner[c]
        BY <2>a, <3>1, <4>2
      <4> QED
        BY <4>1, <4>2
    <3>4. hub' = [u \in DOMAIN hub' |-> hub'[u]]
      BY <1>2 DEF Subscribe
    <3>5. hub' \in [DOMAIN hub' -> SUBSET Clients]
      BY <3>3, <3>4
    <3> QED
      BY <2>1, <2>2, <3>5 DEF TypeOK
  <2>7. c \notin Listened /\ Listened \subseteq Listened'
    BY <2>1 DEF Listened, TypeOK
  <2>8. handler' \in [Clients -> Stages] /\ up' \subseteq Clients
    BY <2>1 DEF TypeOK, Stages
  <2> QED
    BY <2>1, <2>3, <2>5, <2>6, <2>7, <2>8
<1>3. CASE Break(c)
  <2>1. up' = up \ {c} /\ hub' = hub /\ handler' = handler /\ received' = received
    BY <1>3 DEF Break
  <2>2. \A u : Subscribed(u)' = Subscribed(u)
    BY <2>1 DEF Subscribed
  <2>3. HubIsExact'
    BY <2>1, <2>2 DEF HubIsExact
  <2> QED
    BY <2>1, <2>2, <2>3 DEF TypeOK, Listened
<1>4. CASE Leave(c)
  <2>1. /\ handler[c] = "subscribed" /\ c \notin up /\ up' = up
        /\ handler' = [handler EXCEPT ![c] = "done"]
        /\ hub' = Without(Owner[c], c)
        /\ received' = [received EXCEPT ![c] = {}]
    BY <1>4 DEF Leave
  <2>2. /\ hub' \in [DOMAIN hub' -> SUBSET Clients] /\ DOMAIN hub' \subseteq DOMAIN hub
        /\ (\A u \in DOMAIN hub : hub[u] # {}) => \A u \in DOMAIN hub' : hub'[u] # {}
        /\ \A u : Subscribed(u)' = IF u = Owner[c] THEN Subscribed(u) \ {c} ELSE Subscribed(u)
    BY <2>1, Removes
  <2>3. \A d \in Clients : handler'[d] = "subscribed" <=> (d # c /\ handler[d] = "subscribed")
    BY <2>1 DEF TypeOK
  <2>4. HubIsExact'
    BY <2>1, <2>2, <2>3 DEF HubIsExact
  <2>5. \A u \in Users : c \notin Subscribed(u)'
    BY <2>2 DEF HubIsExact
  <2>6. handler' \in [Clients -> Stages] /\ up' \subseteq Clients /\ Listened \subseteq Listened'
    BY <2>1 DEF TypeOK, Stages, Listened
  <2>7. \A d \in Clients : d # c => received'[d] = received[d]
    BY <2>1 DEF TypeOK
  <2> QED
    BY <2>2, <2>4, <2>5, <2>6, <2>7 DEF TypeOK
<1> QED
  BY <1>1, <1>2, <1>3, <1>4 DEF Connection

\* A step of a connection changes no row and no call.
LEMMA ConnectionKeepsAll ==
  ASSUME IInv, NEW c \in Clients, Connection(c)
  PROVE  IInv'
<1>1. UNCHANGED <<notification, request>>
  BY DEF Connection, Accept, Subscribe, Break, Leave
<1>2. /\ HubIsExact'
      /\ hub' \in [DOMAIN hub' -> SUBSET Clients] /\ DOMAIN hub' \subseteq Users
      /\ handler' \in [Clients -> Stages] /\ up' \subseteq Clients
      /\ Listened \subseteq Listened'
      /\ \A u \in Users : Subscribed(u)' \cap Listened \subseteq Subscribed(u)
      /\ \A d \in Clients : \/ received'[d] = received[d]
                            \/ \A u \in Users : d \notin Subscribed(u)'
  BY ConnectionKeepsHub DEF IInv
<1>3. received' = [d \in Clients |-> received'[d]]
  BY DEF IInv, TypeOK, Connection, Accept, Subscribe, Break, Leave
<1>4. TypeOK'
  BY <1>1, <1>2, <1>3 DEF IInv, TypeOK
<1>5. ASSUME NEW r \in Requests, request[r] # Idle PROVE Serves(r)'
  <2>1. PICK req \in Call : request[r] = req
    BY <1>5 DEF IInv, TypeOK
  <2>2. /\ req.present \cup req.clients \cup req.sent \subseteq Listened
        /\ req.stage = "send" => req.present \cap Subscribed(req.user) \subseteq req.clients
        /\ \A d \in req.sent \cap Subscribed(req.user) : Event(req) \in received[d]
    BY <1>5, <2>1 DEF IInv, Serves
  <2>b. request'[r] = req /\ req.user \in Users
    BY <1>1, <2>1 DEF Call
  <2>3. /\ req.present \cap Subscribed(req.user)' \subseteq Subscribed(req.user)
        /\ req.sent \cap Subscribed(req.user)' \subseteq Subscribed(req.user)
    BY <1>2, <2>b, <2>2
  <2>4. req.present \cup req.clients \cup req.sent \subseteq Listened'
    BY <1>2, <2>2
  <2>5. req.stage = "send" => req.present \cap Subscribed(req.user)' \subseteq req.clients
    BY <2>2, <2>3
  <2>6. \A d \in req.sent \cap Subscribed(req.user)' : Event(req) \in received'[d]
    <3>1. \A d \in req.sent \cap Subscribed(req.user)' : d \in Clients /\ received'[d] = received[d]
      BY <1>2, <2>b, <2>2 DEF Listened
    <3> QED
      BY <2>2, <2>3, <3>1
  <2> QED
    BY <2>b, <2>4, <2>5, <2>6 DEF Serves, Event
<1>6. ASSUME NEW r \in Requests, request[r] = Idle PROVE Serves(r)'
  BY <1>1, <1>6 DEF Serves
<1> QED
  BY <1>2, <1>4, <1>5, <1>6 DEF IInv

-------------------------------------------------------------------------------
(* The calls. *)

\* A call that begins has sent nothing, and remembers who listens.
LEMMA Begins ==
  ASSUME IInv, NEW r \in Requests, NEW kind \in Kinds, NEW u \in Users, NEW id \in Ids \cup {NoId},
         request' = [request EXCEPT ![r] = Started(kind, u, id)],
         DOMAIN notification' \subseteq Ids,
         UNCHANGED <<connections, received>>
  PROVE  IInv'
<1>1. UNCHANGED <<hub, handler, up, received>>
  BY DEF connections
<1>2. /\ \A v : Subscribed(v)' = Subscribed(v)
      /\ Listened' = Listened
      /\ HubIsExact'
  BY <1>1 DEF Subscribed, Listened, HubIsExact, IInv
<1>3. Subscribed(u) \subseteq Listened /\ Subscribed(u) \subseteq Clients
  BY DEF IInv, HubIsExact, Listened
<1>4. request'[r] = Started(kind, u, id) /\ \A q \in Requests \ {r} : request'[q] = request[q]
  BY DEF IInv, TypeOK
<1>5. Started(kind, u, id) \in Call
  BY <1>3 DEF Started, Call
<1>6. TypeOK'
  BY <1>1, <1>5 DEF IInv, TypeOK
<1>7. Serves(r)'
  BY <1>2, <1>3, <1>4 DEF Serves, Started
<1>8. ASSUME NEW q \in Requests \ {r} PROVE Serves(q)'
  BY <1>1, <1>2, <1>4 DEF IInv, Serves, Event, Subscribed
<1> QED
  BY <1>2, <1>6, <1>7, <1>8 DEF IInv

\* The three calls that begin.
LEMMA StartKeepsAll ==
  ASSUME IInv, NEW r \in Requests, StartCall(r)
  PROVE  IInv'
<1>1. PICK u \in Users :
        \/ Create(r, u)
        \/ \E n \in Ids : MarkRead(r, u, n)
        \/ MarkAllRead(r, u)
  BY DEF StartCall
<1>2. CASE Create(r, u)
  <2>1. PICK n \in Ids \ DOMAIN notification :
          /\ notification' = [m \in DOMAIN notification \cup {n} |->
                               IF m = n THEN [user |-> u, read |-> FALSE] ELSE notification[m]]
          /\ request' = [request EXCEPT ![r] = Started("notification.created", u, n)]
    BY <1>2 DEF Create
  <2>2. DOMAIN notification' \subseteq Ids /\ UNCHANGED <<connections, received>>
    BY <1>2, <2>1 DEF Create, IInv, TypeOK
  <2> QED
    BY <2>1, <2>2, Begins DEF Kinds
<1>3. ASSUME NEW n \in Ids, MarkRead(r, u, n) PROVE IInv'
  <2>1. /\ request' = [request EXCEPT ![r] = Started("notification.read", u, n)]
        /\ DOMAIN notification' \subseteq Ids /\ UNCHANGED <<connections, received>>
    BY <1>3 DEF MarkRead, IInv, TypeOK
  <2> QED
    BY <2>1, Begins DEF Kinds
<1>4. CASE MarkAllRead(r, u)
  <2>1. /\ request' = [request EXCEPT ![r] = Started("notifications.read_all", u, NoId)]
        /\ DOMAIN notification' \subseteq Ids /\ UNCHANGED <<connections, received>>
    BY <1>4 DEF MarkAllRead, IInv, TypeOK
  <2> QED
    BY <2>1, Begins DEF Kinds
<1> QED
  BY <1>1, <1>2, <1>3, <1>4

\* A call that goes on disturbs no other: the connections stay, and events are
\* only added.
LEMMA GoesOn ==
  ASSUME IInv, NEW r \in Requests,
         \A q \in Requests \ {r} : request'[q] = request[q],
         request' \in [Requests -> Call \cup {Idle}],
         UNCHANGED <<notification, connections>>,
         received' = [c \in Clients |-> received'[c]],
         \A c \in Clients : received[c] \subseteq received'[c],
         Serves(r)'
  PROVE  IInv'
<1>1. UNCHANGED <<notification, hub, handler, up>>
  BY DEF connections
<1>2. Listened' = Listened /\ (\A v : Subscribed(v)' = Subscribed(v)) /\ HubIsExact'
  BY <1>1 DEF Subscribed, Listened, HubIsExact, IInv
<1>3. TypeOK'
  BY <1>1 DEF IInv, TypeOK
<1>4. ASSUME NEW q \in Requests \ {r}, request[q] # Idle PROVE Serves(q)'
  <2>1. PICK req \in Call : request[q] = req /\ request'[q] = req
    BY <1>4 DEF IInv, TypeOK
  <2>2. /\ req.present \cup req.clients \cup req.sent \subseteq Listened
        /\ req.stage = "send" => req.present \cap Subscribed(req.user) \subseteq req.clients
        /\ \A d \in req.sent \cap Subscribed(req.user) : Event(req) \in received[d]
    BY <1>4, <2>1 DEF IInv, Serves
  <2>3. \A d \in req.sent \cap Subscribed(req.user) : Event(req) \in received'[d]
    BY <2>2 DEF Listened
  <2> QED
    BY <1>2, <2>1, <2>2, <2>3 DEF Serves, Event
<1>5. ASSUME NEW q \in Requests \ {r}, request[q] = Idle PROVE Serves(q)'
  BY <1>5 DEF Serves
<1> QED
  BY <1>2, <1>3, <1>4, <1>5 DEF IInv

\* A client to which an event cannot be sent is taken out of the hub, so that it
\* counts as gone for every call.
LEMMA FailureKeepsAll ==
  ASSUME IInv, NEW r \in Requests, SendFails(r)
  PROVE  IInv'
<1>1. PICK c \in Unsent(r) :
        /\ up' = up \ {c}
        /\ hub' = Without(Owner[c], c)
        /\ request' = [request EXCEPT ![r].sent = @ \cup {c}]
  BY DEF SendFails
<1>2. /\ UNCHANGED <<notification, handler, received>>
      /\ request[r].stage = "send" /\ c \in request[r].clients
  BY <1>1 DEF SendFails, Unsent
<1>3. request[r] \in Call /\ request[r] # Idle
  BY <1>2 DEF IInv, TypeOK, Idle
<1>4. c \in Clients /\ c \in Listened /\ Owner[c] \in Users
  BY <1>2, <1>3, NotificationsAssumption DEF IInv, Serves, Call
<1>5. /\ hub' \in [DOMAIN hub' -> SUBSET Clients] /\ DOMAIN hub' \subseteq DOMAIN hub
      /\ (\A u \in DOMAIN hub : hub[u] # {}) => \A u \in DOMAIN hub' : hub'[u] # {}
      /\ \A u : Subscribed(u)' = IF u = Owner[c] THEN Subscribed(u) \ {c} ELSE Subscribed(u)
  BY <1>1, Removes DEF IInv
<1>6. HubIsExact'
  BY <1>1, <1>2, <1>4, <1>5 DEF IInv, HubIsExact
<1>7. Listened' = Listened
  BY <1>2 DEF Listened
<1>8. \A u \in Users : c \notin Subscribed(u)' /\ Subscribed(u)' \subseteq Subscribed(u)
  BY <1>5 DEF IInv, HubIsExact
<1>9. PICK new \in Call : new = [request[r] EXCEPT !.sent = @ \cup {c}]
  BY <1>3, <1>4 DEF Call
<1>10. request'[r] = new /\ \A q \in Requests \ {r} : request'[q] = request[q]
  BY <1>1, <1>9 DEF IInv, TypeOK
<1>11. TypeOK'
  <2>1. request' \in [Requests -> Call \cup {Idle}]
    BY <1>1, <1>10 DEF IInv, TypeOK
  <2>2. up' \subseteq Clients
    BY <1>1 DEF IInv, TypeOK
  <2> QED
    BY <1>2, <1>5, <2>1, <2>2 DEF IInv, TypeOK
<1>12. ASSUME NEW q \in Requests, NEW req \in Call, NEW now \in Call,
              request[q] = req, request'[q] = now,
              now = req \/ now = [req EXCEPT !.sent = @ \cup {c}]
       PROVE  Serves(q)'
  <2>1. /\ req.present \cup req.clients \cup req.sent \subseteq Listened
        /\ req.stage = "send" => req.present \cap Subscribed(req.user) \subseteq req.clients
        /\ \A d \in req.sent \cap Subscribed(req.user) : Event(req) \in received[d]
    <3>1. request[q] # Idle
      BY <1>12 DEF Call, Idle
    <3> QED
      BY <1>12, <3>1 DEF IInv, Serves
  <2>2. /\ now.present = req.present /\ now.clients = req.clients
        /\ now.sent \subseteq req.sent \cup {c}
        /\ now.user = req.user /\ now.user \in Users /\ now.stage = req.stage
        /\ Event(now) = Event(req)
    BY <1>12 DEF Call, Event
  <2>3. c \notin Subscribed(now.user)' /\ Subscribed(now.user)' \subseteq Subscribed(req.user)
    BY <1>8, <2>2
  <2>4. /\ now.present \cup now.clients \cup now.sent \subseteq Listened'
        /\ now.stage = "send" => now.present \cap Subscribed(now.user)' \subseteq now.clients
    BY <1>4, <1>7, <2>1, <2>2, <2>3
  <2>5. \A d \in now.sent \cap Subscribed(now.user)' : Event(now) \in received'[d]
    BY <1>2, <2>1, <2>2, <2>3
  <2> QED
    BY <1>12, <2>4, <2>5 DEF Serves, Event
<1>13. ASSUME NEW q \in Requests PROVE Serves(q)'
  <2>1. CASE q = r
    BY <1>3, <1>9, <1>10, <1>12, <2>1
  <2>2. CASE q # r /\ request[q] = Idle
    BY <1>10, <2>2 DEF Serves
  <2>3. CASE q # r /\ request[q] # Idle
    <3>1. request[q] \in Call /\ request'[q] = request[q]
      BY <1>10, <2>3 DEF IInv, TypeOK
    <3> QED
      BY <1>12, <3>1
  <2> QED
    BY <2>1, <2>2, <2>3
<1> QED
  BY <1>6, <1>11, <1>13 DEF IInv

\* The steps of a call that has begun.
LEMMA ContinueKeepsAll ==
  ASSUME IInv, NEW r \in Requests, ContinueCall(r)
  PROVE  IInv'
<1>1. /\ \A q \in Requests \ {r} : request'[q] = request[q]
      /\ received' = [c \in Clients |-> received'[c]]
      /\ \A c \in Clients : received[c] \subseteq received'[c]
  BY DEF IInv, TypeOK, ContinueCall, Proceed, CountUnread, CountFails, CopyClients, Send, SendFails, Return
<1>2. CASE CountFails(r) \/ Return(r)
  <2>1. request' = [request EXCEPT ![r] = Idle] /\ UNCHANGED <<notification, connections>>
    BY <1>2 DEF CountFails, Return
  <2>2. Serves(r)'
    BY <2>1 DEF Serves, IInv, TypeOK
  <2>3. request' \in [Requests -> Call \cup {Idle}]
    BY <2>1 DEF IInv, TypeOK
  <2> QED
    BY <1>1, <2>1, <2>2, <2>3, GoesOn
<1>3. ASSUME request[r].stage # "idle"
      PROVE  \E req \in Call :
               /\ request[r] = req
               /\ req.present \cup req.clients \cup req.sent \subseteq Listened
               /\ req.stage = "send" => req.present \cap Subscribed(req.user) \subseteq req.clients
               /\ \A c \in req.sent \cap Subscribed(req.user) : Event(req) \in received[c]
  <2>1. request[r] # Idle
    BY <1>3 DEF Idle
  <2>2. request[r] \in Call
    BY <2>1 DEF IInv, TypeOK
  <2> QED
    BY <2>1, <2>2 DEF IInv, Serves
<1>4. CASE CountUnread(r)
  <2>1. /\ request[r].stage = "count" /\ request' = [request EXCEPT ![r].stage = "publish"]
        /\ UNCHANGED <<notification, connections, received>>
    BY <1>4 DEF CountUnread
  <2>2. PICK req \in Call :
          /\ request[r] = req
          /\ req.present \cup req.clients \cup req.sent \subseteq Listened
          /\ \A c \in req.sent \cap Subscribed(req.user) : Event(req) \in received[c]
    BY <1>3, <2>1
  <2>3. PICK new \in Call : new = [req EXCEPT !.stage = "publish"]
    BY DEF Call
  <2>4. request'[r] = new
    BY <2>1, <2>2, <2>3 DEF IInv, TypeOK
  <2>5. /\ new.present = req.present /\ new.clients = req.clients /\ new.sent = req.sent
        /\ new.user = req.user /\ new.kind = req.kind /\ new.id = req.id /\ new.stage = "publish"
    BY <2>3 DEF Call
  <2>6. Listened' = Listened /\ \A v : Subscribed(v)' = Subscribed(v)
    BY <2>1 DEF connections, Listened, Subscribed
  <2>7. Serves(r)'
    BY <2>1, <2>2, <2>4, <2>5, <2>6 DEF Serves, Event
  <2>8. request' \in [Requests -> Call \cup {Idle}]
    BY <2>1, <2>4 DEF IInv, TypeOK
  <2> QED
    BY <1>1, <2>1, <2>7, <2>8, GoesOn
<1>5. CASE CopyClients(r)
  <2>1. /\ request[r].stage = "publish"
        /\ request' = [request EXCEPT ![r].stage = "send",
                                      ![r].clients = Subscribed(request[r].user)]
        /\ UNCHANGED <<notification, connections, received>>
    BY <1>5 DEF CopyClients
  <2>2. PICK req \in Call :
          /\ request[r] = req
          /\ req.present \cup req.clients \cup req.sent \subseteq Listened
          /\ \A c \in req.sent \cap Subscribed(req.user) : Event(req) \in received[c]
    BY <1>3, <2>1
  <2>3. req.user \in Users
    BY DEF Call
  <2>4. Subscribed(req.user) \subseteq Listened /\ Subscribed(req.user) \subseteq Clients
    BY <2>3 DEF IInv, HubIsExact, Listened
  <2>5. PICK new \in Call : new = [req EXCEPT !.stage = "send", !.clients = Subscribed(req.user)]
    BY <2>4 DEF Call
  <2>6. request'[r] = new
    BY <2>1, <2>2, <2>5 DEF IInv, TypeOK
  <2>7. /\ new.present = req.present /\ new.clients = Subscribed(req.user) /\ new.sent = req.sent
        /\ new.user = req.user /\ new.kind = req.kind /\ new.id = req.id
    BY <2>5 DEF Call
  <2>8. Listened' = Listened /\ \A v : Subscribed(v)' = Subscribed(v)
    BY <2>1 DEF connections, Listened, Subscribed
  <2>9. Serves(r)'
    BY <2>1, <2>2, <2>4, <2>6, <2>7, <2>8 DEF Serves, Event
  <2>10. request' \in [Requests -> Call \cup {Idle}]
    BY <2>1, <2>6 DEF IInv, TypeOK
  <2> QED
    BY <1>1, <2>1, <2>9, <2>10, GoesOn
<1>6. CASE Send(r)
  <2>1. PICK c \in Unsent(r) \cap up :
          /\ received' = [received EXCEPT ![c] = @ \cup {Event(request[r])}]
          /\ request' = [request EXCEPT ![r].sent = @ \cup {c}]
    BY <1>6 DEF Send
  <2>2. /\ request[r].stage = "send" /\ c \in request[r].clients
        /\ UNCHANGED <<notification, connections>>
    BY <1>6, <2>1 DEF Send, Unsent
  <2>3. PICK req \in Call :
          /\ request[r] = req
          /\ req.present \cup req.clients \cup req.sent \subseteq Listened
          /\ req.present \cap Subscribed(req.user) \subseteq req.clients
          /\ \A d \in req.sent \cap Subscribed(req.user) : Event(req) \in received[d]
    BY <1>3, <2>2
  <2>4. c \in req.clients /\ c \in Clients /\ c \in Listened
    BY <2>2, <2>3 DEF Call
  <2>5. PICK new \in Call : new = [req EXCEPT !.sent = @ \cup {c}]
    BY <2>4 DEF Call
  <2>6. request'[r] = new
    BY <2>1, <2>3, <2>5 DEF IInv, TypeOK
  <2>7. /\ new.present = req.present /\ new.clients = req.clients /\ new.sent = req.sent \cup {c}
        /\ new.user = req.user /\ Event(new) = Event(req)
    BY <2>5 DEF Call, Event
  <2>8. Listened' = Listened /\ \A v : Subscribed(v)' = Subscribed(v)
    BY <2>2 DEF connections, Listened, Subscribed
  <2>9. /\ Event(req) \in received'[c]
        /\ \A d \in Clients : received[d] \subseteq received'[d]
    BY <1>1, <2>1, <2>3, <2>4 DEF IInv, TypeOK
  <2>10. \A d \in new.sent \cap Subscribed(new.user) : Event(new) \in received'[d]
    BY <2>3, <2>7, <2>9 DEF Listened
  <2>11. Serves(r)'
    BY <2>3, <2>4, <2>6, <2>7, <2>8, <2>10 DEF Serves, Event
  <2>12. request' \in [Requests -> Call \cup {Idle}]
    BY <2>1, <2>6 DEF IInv, TypeOK
  <2> QED
    BY <1>1, <2>2, <2>11, <2>12, GoesOn
<1>7. CASE SendFails(r)
  BY <1>7, FailureKeepsAll
<1> QED
  BY <1>2, <1>4, <1>5, <1>6, <1>7 DEF ContinueCall, Proceed

\* The process starts again with an empty hub and no calls.
LEMMA CrashKeepsAll == IInv /\ Crash => IInv'
<1> SUFFICES ASSUME IInv, Crash PROVE IInv'
  OBVIOUS
<1>1. /\ DOMAIN hub' = {} /\ hub' = [u \in {} |-> {}]
      /\ \A c \in Clients : handler'[c] \in {"new", "done"}
      /\ handler' \in [Clients -> Stages]
      /\ up' = {} /\ received' = [c \in Clients |-> {}]
      /\ request' = [r \in Requests |-> Idle]
      /\ notification' = notification
  BY DEF Crash, Stages
<1>2. HubIsExact'
  BY <1>1 DEF HubIsExact, Subscribed
<1>3. TypeOK'
  BY <1>1 DEF IInv, TypeOK
<1>4. \A r \in Requests : Serves(r)'
  BY <1>1 DEF Serves
<1> QED
  BY <1>2, <1>3, <1>4 DEF IInv

LEMMA InitKeepsAll == Init => IInv
<1> SUFFICES ASSUME Init PROVE IInv
  OBVIOUS
<1>1. TypeOK
  BY DEF Init, TypeOK, Stages
<1>2. HubIsExact
  BY DEF Init, HubIsExact, Subscribed
<1>3. \A r \in Requests : Serves(r)
  BY DEF Init, Serves
<1> QED
  BY <1>1, <1>2, <1>3 DEF IInv

LEMMA NextKeepsAll == IInv /\ [Next]_vars => IInv'
<1> SUFFICES ASSUME IInv, [Next]_vars PROVE IInv'
  OBVIOUS
<1>1. ASSUME NEW c \in Clients, Connection(c) PROVE IInv'
  BY <1>1, ConnectionKeepsAll
<1>2. ASSUME NEW r \in Requests, StartCall(r) \/ ContinueCall(r) PROVE IInv'
  BY <1>2, StartKeepsAll, ContinueKeepsAll
<1>3. CASE Crash
  BY <1>3, CrashKeepsAll
<1>4. CASE UNCHANGED vars
  <2>1. UNCHANGED <<notification, hub, handler, up, received, request>>
    BY <1>4 DEF vars
  <2>2. TypeOK' /\ HubIsExact'
    BY <2>1 DEF IInv, TypeOK, HubIsExact, Subscribed
  <2>3. \A r \in Requests : Serves(r)'
    BY <2>1 DEF IInv, Serves, Subscribed, Event, Listened
  <2> QED
    BY <2>2, <2>3 DEF IInv
<1> QED
  BY <1>1, <1>2, <1>3, <1>4 DEF Next

\* A call ends with Return, with an error before it publishes, or with the process.
LEMMA WhoEnds ==
  ASSUME IInv, Next, NEW r \in Requests, request[r].stage = "send", request'[r] = Idle
  PROVE  Return(r) \/ Crash
<1>1. request[r] \in Call /\ request[r] # Idle
  BY DEF IInv, TypeOK, Idle
<1>2. ASSUME NEW c \in Clients, Connection(c) PROVE FALSE
  BY <1>1, <1>2 DEF Connection, Accept, Subscribe, Break, Leave
<1>3. ASSUME NEW q \in Requests, StartCall(q) PROVE FALSE
  <2>1. request[q] = Idle /\ \A s \in Requests \ {q} : request'[s] = request[s]
    BY <1>3 DEF StartCall, Create, MarkRead, MarkAllRead, IInv, TypeOK
  <2> QED
    BY <1>1, <2>1
<1>4. ASSUME NEW q \in Requests, ContinueCall(q) PROVE Return(r)
  <2>1. \A s \in Requests \ {q} : request'[s] = request[s]
    BY <1>4 DEF ContinueCall, Proceed, CountUnread, CountFails, CopyClients, Send, SendFails, Return,
                IInv, TypeOK
  <2>2. q = r
    BY <1>1, <2>1
  <2>3. ~CountUnread(r) /\ ~CountFails(r) /\ ~CopyClients(r)
    BY DEF CountUnread, CountFails, CopyClients
  <2>4. ~Send(r) /\ ~SendFails(r)
    <3> SUFFICES ASSUME NEW c, request' = [request EXCEPT ![r].sent = @ \cup {c}] PROVE FALSE
      BY DEF Send, SendFails
    <3>1. request'[r].stage = "send"
      BY <1>1 DEF Call, IInv, TypeOK
    <3> QED
      BY <3>1 DEF Idle
  <2> QED
    BY <1>4, <2>2, <2>3, <2>4 DEF ContinueCall, Proceed
<1> QED
  BY <1>2, <1>3, <1>4 DEF Next

-------------------------------------------------------------------------------
\* HubIsExact: whatever subscribes, fails, leaves, publishes or crashes, and in
\* whatever order, the hub lists the connections that work and only those that
\* are still waited on, each under its own user.
THEOREM TheHubIsExact == SafetySpec => []HubIsExact
<1>1. IInv => HubIsExact
  BY DEF IInv
<1> QED
  BY InitKeepsAll, NextKeepsAll, <1>1, PTL DEF SafetySpec

\* NobodySkipped: a call that publishes to the end reaches every connection that
\* has listened from the change of the table on.
THEOREM NobodyIsSkipped == SafetySpec => NobodySkipped
<1>1. IInv /\ [Next]_vars =>
        [\A r \in Requests :
           (request[r].stage = "send" /\ request'[r] = Idle /\ hub' = hub) =>
             \A c \in request[r].present \cap Subscribed(request[r].user) :
               Event(request[r]) \in received[c]]_vars
  <2> SUFFICES ASSUME IInv, Next, NEW r \in Requests, request[r].stage = "send",
                      request'[r] = Idle, hub' = hub,
                      NEW c \in request[r].present \cap Subscribed(request[r].user)
               PROVE  Event(request[r]) \in received[c]
    OBVIOUS
  <2>1. Return(r) \/ Crash
    BY WhoEnds
  <2>2. ~Crash
    BY DEF Crash, Subscribed
  <2>3. /\ request[r] # Idle /\ Serves(r)
        /\ request[r].clients \ request[r].sent = {}
    BY <2>1, <2>2 DEF IInv, Idle, Return, Unsent
  <2> QED
    BY <2>3 DEF Serves
<1>2. SafetySpec => []IInv
  BY InitKeepsAll, NextKeepsAll, PTL DEF SafetySpec
<1> QED
  BY <1>1, <1>2, PTL DEF SafetySpec, NobodySkipped

===============================================================================
